---- MODULE Spec2Model ----
(***************************************************************************)
(* Model of the quote backend actor (src/src/spec.md, the Motoko actor):   *)
(* the rate card store, the quote / analysis calculators, the quote        *)
(* history, the account manager store and the uploaded-file registry.      *)
(*                                                                         *)
(* Text used as a map key is a sequence of characters ordered as           *)
(* Text.compare orders it; other Text fields are opaque strings.           *)
(* Float values are the numbers they denote: costs are integers (sums,     *)
(* differences and products of small integers are exact in IEEE doubles),  *)
(* a quotient is a reduced fraction [num, den].                            *)
(***************************************************************************)
EXTENDS Integers, Sequences, FiniteSets, TLC

VARIABLES
  rateCardItems,    \* OrderedMap Text -> RateCardItem
  quoteHistory,     \* OrderedMap Text -> QuoteHistoryItem
  accountManagers,  \* OrderedMap Text -> AccountManager
  uploadedFiles,    \* OrderedMap Text -> UploadedFile
  now,              \* the value Time.now() returns to the next message
  request,          \* what a client has prepared: the request [header, selectedItems]
                    \* of a quote, or the file [file] to upload
  call,             \* the last message the actor executed, or the last handler
                    \* the page ran: [op, args, result]
  userProfiles,     \* OrderedMap Text -> UserProfile
  accessControlState, \* AccessControl state: [adminAssigned, userRoles]
  running,          \* the message the actor is executing, when it is in the middle of one
  window,           \* the browser globals: [jspdf, XLSX]
  rateCardManager,  \* state of RateCardManager: [file, parsedData, showPreview, isUpdating]
  quoteSummary,     \* props of QuoteSummary: [quote]
  toasts,           \* the toasts shown, oldest first: [kind, message]
  downloads,        \* the files saved by the exports, oldest first
  quoteGenerator,   \* state of QuoteGenerator with its two mutations and its fetched rate card
  analysisTab,      \* state of AnalysisTab with the requests of its last update
  mainApp           \* state of MainApp: [activeTab, currentQuote], how its tabs mount
                    \* their contents, and the requests of unmounted pages

stores == <<rateCardItems, quoteHistory, accountManagers, uploadedFiles>>

auth == <<userProfiles, accessControlState>>

pages == <<quoteGenerator, analysisTab, mainApp>>

frontend == <<window, rateCardManager, quoteSummary, toasts, downloads, pages>>

\* What the methods of the rate card, quote, manager and file sections leave alone.
rest == <<auth, running, frontend>>

vars == <<stores, now, request, call, rest>>

----------------------------------------------------------------------------
(* Bounds of the model *)

MaxSel == 2          \* longest selection list of a prepared request
MaxItems == 2        \* longest list given to a bulk replace
TimeOrigin == 9      \* Time.now() of the first message
MaxTime == 10        \* last clock value explored
MaxToasts == 3       \* most toasts a page shows
MaxInFlight == 3     \* most requests of the pages in flight at a time

----------------------------------------------------------------------------
(* Text, Text.compare and Int.toText *)

\* Characters in code point order: '-' < digits < upper case < lower case.
Alphabet ==
  <<"-", "0", "1", "2", "3", "4", "5", "6", "7", "8", "9", "A", "B", "e", "f", "i", "m", "p",
    "t">>

CharRank(c) == CHOOSE i \in 1..Len(Alphabet) : Alphabet[i] = c

RECURSIVE TextLess(_, _)
TextLess(a, b) ==
  IF b = <<>> THEN FALSE
  ELSE IF a = <<>> THEN TRUE
  ELSE IF Head(a) # Head(b) THEN CharRank(Head(a)) < CharRank(Head(b))
  ELSE TextLess(Tail(a), Tail(b))

Digits == <<"0", "1", "2", "3", "4", "5", "6", "7", "8", "9">>

RECURSIVE NatToText(_)
NatToText(n) ==
  IF n < 10 THEN <<Digits[n + 1]>>
  ELSE NatToText(n \div 10) \o <<Digits[(n % 10) + 1]>>

IntToText(n) == IF n < 0 THEN <<"-">> \o NatToText(0 - n) ELSE NatToText(n)

----------------------------------------------------------------------------
(* OrderedMap.Make<Text>(Text.compare) *)

empty == <<>>

\* An option ?T is <<>> for null and <<v>> for ?v.
get(map, key) == IF key \in DOMAIN map THEN <<map[key]>> ELSE <<>>

put(map, key, value) ==
  [k \in (DOMAIN map) \cup {key} |-> IF k = key THEN value ELSE map[k]]

delete(map, key) == [k \in (DOMAIN map) \ {key} |-> map[k]]

MinKey(keys) == CHOOSE k \in keys : \A other \in keys \ {k} : TextLess(k, other)

RECURSIVE SortedKeys(_)
SortedKeys(keys) ==
  IF keys = {} THEN <<>>
  ELSE LET k == MinKey(keys) IN <<k>> \o SortedKeys(keys \ {k})

\* Iter.toArray(textMap.vals(map)): the values in ascending key order.
vals(map) ==
  LET ks == SortedKeys(DOMAIN map) IN [i \in 1..Len(ks) |-> map[ks[i]]]

----------------------------------------------------------------------------
(* Float arithmetic *)

Abs(x) == IF x < 0 THEN 0 - x ELSE x

RECURSIVE Gcd(_, _)
Gcd(a, b) == IF b = 0 THEN a ELSE Gcd(b, a % b)

\* a / b for b > 0, as a reduced fraction.
FloatDiv(a, b) ==
  LET g == Gcd(Abs(a), b) IN [num |-> a \div g, den |-> b \div g]

\* q * k for a fraction q and an integer k.
FloatScale(q, k) == FloatDiv(q.num * k, q.den)

FloatZero == [num |-> 0, den |-> 1]

----------------------------------------------------------------------------
(* Values the clients send *)

Ids == {<<"A">>, <<"B">>}            \* ids of rate-card items
SelIds == Ids \cup {<<"m">>}          \* ids a selection may name; "m" is never stored
Quantities == {0, 2}
Durations == {1, 3}

Item(id, opsBriskCost, standardCost) ==
  [id |-> id, itemRefNo |-> "R1", category |-> "cat", subcategory |-> "sub",
   detailedDescription |-> "desc", opsBriskCost |-> opsBriskCost,
   standardCost |-> standardCost]

\* Rate-card items of the calculator specification.
CalcItems == {Item(id, ops, std) : id \in Ids, ops \in {0, 80}, std \in {-20, 0, 100}}

\* Items and costs sent to the rate card operations of the store specification.
RateCardItemInputs == {Item(id, 80, std) : id \in Ids, std \in {90, 100}}

CostInputs == {90, 100}

\* Items sent to the rate card operations of the actor specification.
ActorItemInputs == {Item(<<"A">>, 80, std) : std \in {90, 100}}

Headers ==
  [clientName : {"Acme", "Zed"}, projectDuration : {"3 months"},
   accountManager : {"Ann"}, projectName : {"Site"}]

Selections == SelIds \X Quantities \X Durations

SeqsUpTo(S, n) == UNION {[1..k -> S] : k \in 0..n}

\* Selection lists of the actor specification.
ActorSelectionInputs == SeqsUpTo({<<"A">>, <<"m">>} \X {2} \X {3}, 1)

ManagerIds == {<<"m", "1">>, <<"m", "2">>}

AccountManagerInputs == [id : ManagerIds, name : {"Ann", "Bob"}, email : {<<>>}]

ActorManagerInputs == [id : {<<"m", "1">>}, name : {"Ann"}, email : {<<>>}]

UploadedFileInputs ==
  [id : {<<"f", "1">>}, name : {"rates.csv"}, size : {10}, contentType : {"text/csv"},
   blobId : {"b1"}]

NoRequest == [header |-> CHOOSE h \in Headers : TRUE, selectedItems |-> <<>>]

NoCall == [op |-> "none", args |-> <<>>, result |-> <<>>]

\* No message is in the middle of its execution.
NoRunning ==
  [op |-> "none", todo |-> <<>>, args |-> <<>>,
   before |-> [rateCardItems |-> empty, accountManagers |-> empty]]

\* index.html has loaded both export libraries.
LoadedWindow == [jspdf |-> "loaded", XLSX |-> TRUE]

\* RateCardManager as mounted: useState(null), useState([]), useState(false).
NoUpload == [file |-> <<>>, parsedData |-> <<>>, showPreview |-> FALSE, isUpdating |-> FALSE]

\* QuoteSummary before a quote was generated.
NoQuote == [quote |-> <<>>]

\* QuoteGenerator as mounted, before its rate card query has answered.
NoQuoteGenerator ==
  [selectedItems |-> <<>>, generatedQuote |-> <<>>, filterDescription |-> <<>>,
   analysisData |-> <<>>, clientName |-> <<>>, projectDuration |-> <<>>,
   accountManager |-> <<>>, projectName |-> <<>>, rateCard |-> <<>>,
   analyzing |-> <<>>, generating |-> <<>>]

\* AnalysisTab while it is not mounted. requests are the updateStandardCost
\* calls of the last handleUpdateCosts with their outcome, completed is its
\* counter, updated counts its calls of onQuoteUpdated, closure is what its
\* callbacks have captured: [quote, editableItems, totalRevenue, shared].
NoAnalysisTab ==
  [editableItems |-> <<>>, requests |-> <<>>, completed |-> 0, updated |-> 0,
   closure |-> <<>>]

\* MainApp as mounted: useState('quote'), useState(null). forceMount tells
\* whether the tabs keep the content of an inactive tab mounted; unobserved
\* are the requests in flight whose page was unmounted.
NoMainApp ==
  [activeTab |-> "quote", currentQuote |-> <<>>, forceMount |-> FALSE,
   unobserved |-> <<>>]

InitPages ==
  /\ quoteGenerator = NoQuoteGenerator
  /\ analysisTab = NoAnalysisTab
  /\ mainApp = NoMainApp

----------------------------------------------------------------------------
(* Rate card store *)

\* PutAll storing every element under the id of the first one.
RECURSIVE PutAllUnder(_, _, _)
PutAllUnder(key, map, list) ==
  IF list = <<>> THEN map ELSE PutAllUnder(key, put(map, key, Head(list)), Tail(list))

PutAll_KeyOfFirst(map, list) ==
  IF list = <<>> THEN map ELSE PutAllUnder(Head(list).id, map, list)

RECURSIVE PutAll(_, _)
PutAll(map, list) ==
  IF list = <<>> THEN map
  ELSE PutAll(put(map, Head(list).id, Head(list)), Tail(list))

\* updateRateCard that does not empty the store before inserting.
updateRateCard_NoClear(newItems) ==
  /\ rateCardItems' = PutAll(rateCardItems, newItems)
  /\ call' = [op |-> "updateRateCard", args |-> <<newItems>>, result |-> <<>>]
  /\ UNCHANGED <<quoteHistory, accountManagers, uploadedFiles, now, request, rest>>

updateRateCard(newItems) ==
  /\ rateCardItems' = PutAll(empty, newItems)
  /\ call' = [op |-> "updateRateCard", args |-> <<newItems>>, result |-> <<>>]
  /\ UNCHANGED <<quoteHistory, accountManagers, uploadedFiles, now, request, rest>>

getRateCard ==
  /\ call' = [op |-> "getRateCard", args |-> <<>>,
              result |-> [items |-> vals(rateCardItems)]]
  /\ UNCHANGED <<stores, now, request, rest>>

getRateCardItem(id) ==
  /\ call' = [op |-> "getRateCardItem", args |-> <<id>>, result |-> get(rateCardItems, id)]
  /\ UNCHANGED <<stores, now, request, rest>>

getAllRateCardItems ==
  /\ call' = [op |-> "getAllRateCardItems", args |-> <<>>, result |-> vals(rateCardItems)]
  /\ UNCHANGED <<stores, now, request, rest>>

\* addRateCardItem that keeps the stored item when the id is already present.
addRateCardItem_KeepExisting(item) ==
  /\ rateCardItems' =
       IF item.id \in DOMAIN rateCardItems THEN rateCardItems
       ELSE put(rateCardItems, item.id, item)
  /\ call' = [op |-> "addRateCardItem", args |-> <<item>>, result |-> <<>>]
  /\ UNCHANGED <<quoteHistory, accountManagers, uploadedFiles, now, request, rest>>

addRateCardItem(item) ==
  /\ rateCardItems' = put(rateCardItems, item.id, item)
  /\ call' = [op |-> "addRateCardItem", args |-> <<item>>, result |-> <<>>]
  /\ UNCHANGED <<quoteHistory, accountManagers, uploadedFiles, now, request, rest>>

deleteRateCardItem(id) ==
  /\ rateCardItems' = delete(rateCardItems, id)
  /\ call' = [op |-> "deleteRateCardItem", args |-> <<id>>, result |-> <<>>]
  /\ UNCHANGED <<quoteHistory, accountManagers, uploadedFiles, now, request, rest>>

updateRateCardItem(item) ==
  /\ rateCardItems' = put(rateCardItems, item.id, item)
  /\ call' = [op |-> "updateRateCardItem", args |-> <<item>>, result |-> <<>>]
  /\ UNCHANGED <<quoteHistory, accountManagers, uploadedFiles, now, request, rest>>

\* updateStandardCost that creates the item when the id is not in the rate card.
updateStandardCost_Upsert(itemId, newStandardCost) ==
  /\ rateCardItems' =
       IF itemId \in DOMAIN rateCardItems
       THEN put(rateCardItems, itemId,
                [rateCardItems[itemId] EXCEPT !.standardCost = newStandardCost])
       ELSE put(rateCardItems, itemId, Item(itemId, 0, newStandardCost))
  /\ call' = [op |-> "updateStandardCost", args |-> <<itemId, newStandardCost>>,
              result |-> <<>>]
  /\ UNCHANGED <<quoteHistory, accountManagers, uploadedFiles, now, request, rest>>

\* updateStandardCost that also reprices the line items of the stored quotes.
updateStandardCost_Reprice(itemId, newStandardCost) ==
  /\ rateCardItems' =
       IF itemId \in DOMAIN rateCardItems
       THEN put(rateCardItems, itemId,
                [rateCardItems[itemId] EXCEPT !.standardCost = newStandardCost])
       ELSE rateCardItems
  /\ quoteHistory' =
       [k \in DOMAIN quoteHistory |->
          [quoteHistory[k] EXCEPT !.items =
             [i \in 1..Len(quoteHistory[k].items) |->
                IF quoteHistory[k].items[i].id = itemId
                THEN [quoteHistory[k].items[i] EXCEPT !.standardCost = newStandardCost]
                ELSE quoteHistory[k].items[i]]]]
  /\ call' = [op |-> "updateStandardCost", args |-> <<itemId, newStandardCost>>,
              result |-> <<>>]
  /\ UNCHANGED <<accountManagers, uploadedFiles, now, request, rest>>

updateStandardCost(itemId, newStandardCost) ==
  /\ rateCardItems' =
       IF itemId \in DOMAIN rateCardItems
       THEN put(rateCardItems, itemId,
                [rateCardItems[itemId] EXCEPT !.standardCost = newStandardCost])
       ELSE rateCardItems
  /\ call' = [op |-> "updateStandardCost", args |-> <<itemId, newStandardCost>>,
              result |-> <<>>]
  /\ UNCHANGED <<quoteHistory, accountManagers, uploadedFiles, now, request, rest>>

----------------------------------------------------------------------------
(* Quote and analysis calculators *)

\* QuoteItemOf with the duration left out of the line total.
QuoteItemOf_NoDuration(item, quantity, duration) ==
  [id |-> item.id, itemRefNo |-> item.itemRefNo, category |-> item.category,
   subcategory |-> item.subcategory, detailedDescription |-> item.detailedDescription,
   opsBriskCost |-> item.opsBriskCost, standardCost |-> item.standardCost,
   quantity |-> quantity, duration |-> duration,
   total |-> item.standardCost * quantity]

\* Body of the loop of generateQuote for a selection found in the rate card.
QuoteItemOf(item, quantity, duration) ==
  [id |-> item.id, itemRefNo |-> item.itemRefNo, category |-> item.category,
   subcategory |-> item.subcategory, detailedDescription |-> item.detailedDescription,
   opsBriskCost |-> item.opsBriskCost, standardCost |-> item.standardCost,
   quantity |-> quantity, duration |-> duration,
   total |-> item.standardCost * quantity * duration]

\* generateQuoteLoop putting each new line item in front of the earlier ones.
RECURSIVE generateQuoteLoop_Prepend(_, _, _)
generateQuoteLoop_Prepend(card, selectedItems, acc) ==
  IF selectedItems = <<>> THEN acc
  ELSE LET itemId == Head(selectedItems)[1]
           quantity == Head(selectedItems)[2]
           duration == Head(selectedItems)[3]
       IN IF itemId \notin DOMAIN card
          THEN generateQuoteLoop_Prepend(card, Tail(selectedItems), acc)
          ELSE LET quoteItem == QuoteItemOf(card[itemId], quantity, duration)
               IN generateQuoteLoop_Prepend(card, Tail(selectedItems),
                    [items |-> <<quoteItem>> \o acc.items,
                     total |-> acc.total + quoteItem.total])

RECURSIVE generateQuoteLoop(_, _, _)
generateQuoteLoop(card, selectedItems, acc) ==
  IF selectedItems = <<>> THEN acc
  ELSE LET itemId == Head(selectedItems)[1]
           quantity == Head(selectedItems)[2]
           duration == Head(selectedItems)[3]
       IN IF itemId \notin DOMAIN card
          THEN generateQuoteLoop(card, Tail(selectedItems), acc)
          ELSE LET quoteItem == QuoteItemOf(card[itemId], quantity, duration)
               IN generateQuoteLoop(card, Tail(selectedItems),
                    [items |-> Append(acc.items, quoteItem),
                     total |-> acc.total + quoteItem.total])

\* FullQuoteItemOf pricing the line at the ops cost.
FullQuoteItemOf_OpsCost(item, quantity, duration) ==
  [id |-> item.id, itemRefNo |-> item.itemRefNo, category |-> item.category,
   subcategory |-> item.subcategory, detailedDescription |-> item.detailedDescription,
   opsBriskCost |-> item.opsBriskCost, standardCost |-> item.standardCost,
   quantity |-> quantity, duration |-> duration,
   total |-> item.opsBriskCost * quantity * duration]

\* Body of the loop of generateFullQuote for a selection found in the rate card.
FullQuoteItemOf(item, quantity, duration) ==
  [id |-> item.id, itemRefNo |-> item.itemRefNo, category |-> item.category,
   subcategory |-> item.subcategory, detailedDescription |-> item.detailedDescription,
   opsBriskCost |-> item.opsBriskCost, standardCost |-> item.standardCost,
   quantity |-> quantity, duration |-> duration,
   total |-> item.standardCost * quantity * duration]

\* generateFullQuoteLoop assigning the line total to the total instead of adding it.
RECURSIVE generateFullQuoteLoop_Assign(_, _, _)
generateFullQuoteLoop_Assign(card, selectedItems, acc) ==
  IF selectedItems = <<>> THEN acc
  ELSE LET itemId == Head(selectedItems)[1]
           quantity == Head(selectedItems)[2]
           duration == Head(selectedItems)[3]
       IN IF itemId \notin DOMAIN card
          THEN generateFullQuoteLoop_Assign(card, Tail(selectedItems), acc)
          ELSE LET quoteItem == FullQuoteItemOf(card[itemId], quantity, duration)
               IN generateFullQuoteLoop_Assign(card, Tail(selectedItems),
                    [items |-> Append(acc.items, quoteItem),
                     total |-> quoteItem.total])

RECURSIVE generateFullQuoteLoop(_, _, _)
generateFullQuoteLoop(card, selectedItems, acc) ==
  IF selectedItems = <<>> THEN acc
  ELSE LET itemId == Head(selectedItems)[1]
           quantity == Head(selectedItems)[2]
           duration == Head(selectedItems)[3]
       IN IF itemId \notin DOMAIN card
          THEN generateFullQuoteLoop(card, Tail(selectedItems), acc)
          ELSE LET quoteItem == FullQuoteItemOf(card[itemId], quantity, duration)
               IN generateFullQuoteLoop(card, Tail(selectedItems),
                    [items |-> Append(acc.items, quoteItem),
                     total |-> acc.total + quoteItem.total])

\* AnalysisItemOf with the margin ratio not turned into a percentage.
AnalysisItemOf_NoPercent(item, quantity, duration) ==
  LET total == item.standardCost * quantity * duration
      margin == item.standardCost - item.opsBriskCost
      marginPercentage ==
        IF item.standardCost > 0
        THEN FloatDiv(margin, item.standardCost)
        ELSE FloatZero
  IN [id |-> item.id, itemRefNo |-> item.itemRefNo, category |-> item.category,
      subcategory |-> item.subcategory, detailedDescription |-> item.detailedDescription,
      opsBriskCost |-> item.opsBriskCost, standardCost |-> item.standardCost,
      quantity |-> quantity, duration |-> duration, total |-> total,
      margin |-> margin, marginPercentage |-> marginPercentage]

\* Body of the loop of generateAnalysis for a selection found in the rate card.
AnalysisItemOf(item, quantity, duration) ==
  LET total == item.standardCost * quantity * duration
      margin == item.standardCost - item.opsBriskCost
      marginPercentage ==
        IF item.standardCost > 0
        THEN FloatScale(FloatDiv(margin, item.standardCost), 100)
        ELSE FloatZero
  IN [id |-> item.id, itemRefNo |-> item.itemRefNo, category |-> item.category,
      subcategory |-> item.subcategory, detailedDescription |-> item.detailedDescription,
      opsBriskCost |-> item.opsBriskCost, standardCost |-> item.standardCost,
      quantity |-> quantity, duration |-> duration, total |-> total,
      margin |-> margin, marginPercentage |-> marginPercentage]

\* generateAnalysisLoop ending the loop at the first id that is not in the rate card.
RECURSIVE generateAnalysisLoop_StopAtUnknown(_, _, _)
generateAnalysisLoop_StopAtUnknown(card, selectedItems, acc) ==
  IF selectedItems = <<>> THEN acc
  ELSE LET itemId == Head(selectedItems)[1]
           quantity == Head(selectedItems)[2]
           duration == Head(selectedItems)[3]
       IN IF itemId \notin DOMAIN card
          THEN acc
          ELSE LET analysisItem == AnalysisItemOf(card[itemId], quantity, duration)
               IN generateAnalysisLoop_StopAtUnknown(card, Tail(selectedItems),
                    [items |-> Append(acc.items, analysisItem),
                     totalMargin |-> acc.totalMargin + analysisItem.margin,
                     totalProfit |-> acc.totalProfit + analysisItem.total])

\* generateAnalysisLoop scaling the margin by quantity and duration in totalMargin.
RECURSIVE generateAnalysisLoop_ScaledMargin(_, _, _)
generateAnalysisLoop_ScaledMargin(card, selectedItems, acc) ==
  IF selectedItems = <<>> THEN acc
  ELSE LET itemId == Head(selectedItems)[1]
           quantity == Head(selectedItems)[2]
           duration == Head(selectedItems)[3]
       IN IF itemId \notin DOMAIN card
          THEN generateAnalysisLoop_ScaledMargin(card, Tail(selectedItems), acc)
          ELSE LET analysisItem == AnalysisItemOf(card[itemId], quantity, duration)
               IN generateAnalysisLoop_ScaledMargin(card, Tail(selectedItems),
                    [items |-> Append(acc.items, analysisItem),
                     totalMargin |-> acc.totalMargin
                                       + analysisItem.margin * quantity * duration,
                     totalProfit |-> acc.totalProfit + analysisItem.total])

RECURSIVE generateAnalysisLoop(_, _, _)
generateAnalysisLoop(card, selectedItems, acc) ==
  IF selectedItems = <<>> THEN acc
  ELSE LET itemId == Head(selectedItems)[1]
           quantity == Head(selectedItems)[2]
           duration == Head(selectedItems)[3]
       IN IF itemId \notin DOMAIN card
          THEN generateAnalysisLoop(card, Tail(selectedItems), acc)
          ELSE LET analysisItem == AnalysisItemOf(card[itemId], quantity, duration)
               IN generateAnalysisLoop(card, Tail(selectedItems),
                    [items |-> Append(acc.items, analysisItem),
                     totalMargin |-> acc.totalMargin + analysisItem.margin,
                     totalProfit |-> acc.totalProfit + analysisItem.total])

\* generateQuote that also writes a history item, as generateFullQuote does.
generateQuote_Persist(selectedItems) ==
  LET quote == generateQuoteLoop(rateCardItems, selectedItems,
                                 [items |-> <<>>, total |-> 0])
  IN /\ quoteHistory' =
          put(quoteHistory, IntToText(now),
              [id |-> IntToText(now), timestamp |-> now, header |-> NoRequest.header,
               items |-> quote.items, total |-> quote.total])
     /\ call' = [op |-> "generateQuote", args |-> <<selectedItems>>, result |-> quote]
     /\ UNCHANGED <<rateCardItems, accountManagers, uploadedFiles, now, request, rest>>

generateQuote(selectedItems) ==
  /\ call' = [op |-> "generateQuote", args |-> <<selectedItems>>,
              result |-> generateQuoteLoop(rateCardItems, selectedItems,
                                           [items |-> <<>>, total |-> 0])]
  /\ UNCHANGED <<stores, now, request, rest>>

\* generateFullQuote storing the history item before the total is known.
generateFullQuote_NoTotal(header, selectedItems) ==
  LET quote == generateFullQuoteLoop(rateCardItems, selectedItems,
                                     [items |-> <<>>, total |-> 0])
      quoteId == IntToText(now)
      historyItem == [id |-> quoteId, timestamp |-> now, header |-> header,
                      items |-> quote.items, total |-> 0]
  IN /\ quoteHistory' = put(quoteHistory, quoteId, historyItem)
     /\ call' = [op |-> "generateFullQuote", args |-> <<header, selectedItems>>,
                 result |-> [header |-> header, items |-> quote.items,
                             total |-> quote.total]]
     /\ UNCHANGED <<rateCardItems, accountManagers, uploadedFiles, now, request, rest>>

\* generateFullQuote reading the clock a second time, later, for the timestamp.
generateFullQuote_LaterTimestamp(header, selectedItems) ==
  LET quote == generateFullQuoteLoop(rateCardItems, selectedItems,
                                     [items |-> <<>>, total |-> 0])
      quoteId == IntToText(now)
      historyItem == [id |-> quoteId, timestamp |-> now + 1, header |-> header,
                      items |-> quote.items, total |-> quote.total]
  IN /\ quoteHistory' = put(quoteHistory, quoteId, historyItem)
     /\ call' = [op |-> "generateFullQuote", args |-> <<header, selectedItems>>,
                 result |-> [header |-> header, items |-> quote.items,
                             total |-> quote.total]]
     /\ UNCHANGED <<rateCardItems, accountManagers, uploadedFiles, now, request, rest>>

generateFullQuote(header, selectedItems) ==
  LET quote == generateFullQuoteLoop(rateCardItems, selectedItems,
                                     [items |-> <<>>, total |-> 0])
      quoteId == IntToText(now)
      timestamp == now
      historyItem == [id |-> quoteId, timestamp |-> timestamp, header |-> header,
                      items |-> quote.items, total |-> quote.total]
  IN /\ quoteHistory' = put(quoteHistory, quoteId, historyItem)
     /\ call' = [op |-> "generateFullQuote", args |-> <<header, selectedItems>>,
                 result |-> [header |-> header, items |-> quote.items,
                             total |-> quote.total]]
     /\ UNCHANGED <<rateCardItems, accountManagers, uploadedFiles, now, request, rest>>

generateAnalysis(selectedItems) ==
  /\ call' = [op |-> "generateAnalysis", args |-> <<selectedItems>>,
              result |-> generateAnalysisLoop(rateCardItems, selectedItems,
                           [items |-> <<>>, totalMargin |-> 0, totalProfit |-> 0])]
  /\ UNCHANGED <<stores, now, request, rest>>

getQuoteHistory ==
  /\ call' = [op |-> "getQuoteHistory", args |-> <<>>, result |-> vals(quoteHistory)]
  /\ UNCHANGED <<stores, now, request, rest>>

getQuoteHistoryItem(id) ==
  /\ call' = [op |-> "getQuoteHistoryItem", args |-> <<id>>,
              result |-> get(quoteHistory, id)]
  /\ UNCHANGED <<stores, now, request, rest>>

----------------------------------------------------------------------------
(* Account manager store and uploaded-file registry *)

updateAccountManagers(newManagers) ==
  /\ accountManagers' = PutAll(empty, newManagers)
  /\ call' = [op |-> "updateAccountManagers", args |-> <<newManagers>>, result |-> <<>>]
  /\ UNCHANGED <<rateCardItems, quoteHistory, uploadedFiles, now, request, rest>>

getAccountManagers ==
  /\ call' = [op |-> "getAccountManagers", args |-> <<>>,
              result |-> [managers |-> vals(accountManagers)]]
  /\ UNCHANGED <<stores, now, request, rest>>

addAccountManager(manager) ==
  /\ accountManagers' = put(accountManagers, manager.id, manager)
  /\ call' = [op |-> "addAccountManager", args |-> <<manager>>, result |-> <<>>]
  /\ UNCHANGED <<rateCardItems, quoteHistory, uploadedFiles, now, request, rest>>

deleteAccountManager(id) ==
  /\ accountManagers' = delete(accountManagers, id)
  /\ call' = [op |-> "deleteAccountManager", args |-> <<id>>, result |-> <<>>]
  /\ UNCHANGED <<rateCardItems, quoteHistory, uploadedFiles, now, request, rest>>

updateAccountManager(manager) ==
  /\ accountManagers' = put(accountManagers, manager.id, manager)
  /\ call' = [op |-> "updateAccountManager", args |-> <<manager>>, result |-> <<>>]
  /\ UNCHANGED <<rateCardItems, quoteHistory, uploadedFiles, now, request, rest>>

trackUploadedFile(file) ==
  /\ uploadedFiles' = put(uploadedFiles, file.id, file)
  /\ call' = [op |-> "trackUploadedFile", args |-> <<file>>, result |-> <<>>]
  /\ UNCHANGED <<rateCardItems, quoteHistory, accountManagers, now, request, rest>>

getUploadedFiles ==
  /\ call' = [op |-> "getUploadedFiles", args |-> <<>>, result |-> vals(uploadedFiles)]
  /\ UNCHANGED <<stores, now, request, rest>>

----------------------------------------------------------------------------
(* Authentication and user profiles.  The library authorization/access-control *)
(* is imported by the actor and is not part of the repository: its functions  *)
(* are written from the actor's comments ("first caller becomes admin, others *)
(* become users", "Admin-only check happens inside") and from the UserRole    *)
(* enumeration of backend.d.ts.                                               *)

Principals == {"p1", "p2", "anonymous"}

\* Principal.toText
PrincipalToText(principal) ==
  CASE principal = "p1" -> <<"p", "1">>
    [] principal = "p2" -> <<"p", "2">>
    [] OTHER -> <<"2", "-", "f">>

UserRole == {"admin", "user", "guest"}

UserProfile(id, name) ==
  [id |-> id, name |-> name, accountManagerId |-> "m1", email |-> "e", phone |-> "t"]

UserProfileInputs ==
  {UserProfile(<<"p", "1">>, "n1"), UserProfile(<<"p", "1">>, "n2"),
   UserProfile(<<"p", "2">>, "n1")}

\* AccessControl.initState
initState == [adminAssigned |-> FALSE, userRoles |-> empty]

\* AccessControl.getUserRole: a principal without a role is a guest.
getUserRole(state, caller) ==
  IF caller = "anonymous" THEN "guest"
  ELSE IF PrincipalToText(caller) \in DOMAIN state.userRoles
       THEN state.userRoles[PrincipalToText(caller)]
       ELSE "guest"

\* AccessControl.isAdmin
isAdmin(state, caller) == getUserRole(state, caller) = "admin"

\* AccessControl.hasPermission: an admin has every permission, everybody has
\* #guest, otherwise the caller's role must be the required one.
hasPermission(state, caller, requiredRole) ==
  \/ getUserRole(state, caller) = "admin"
  \/ requiredRole = "guest"
  \/ getUserRole(state, caller) = requiredRole

\* AccessControl.initialize: the first caller becomes admin, others become users.
initialize(state, caller) ==
  IF caller = "anonymous" \/ PrincipalToText(caller) \in DOMAIN state.userRoles
  THEN state
  ELSE [adminAssigned |-> TRUE,
        userRoles |-> put(state.userRoles, PrincipalToText(caller),
                          IF state.adminAssigned THEN "user" ELSE "admin")]

\* AccessControl.assignRole, after its admin-only check.
assignRole(state, user, role) ==
  [state EXCEPT !.userRoles = put(state.userRoles, PrincipalToText(user), role)]

\* A message of the authentication section: who called, and the trap message
\* when the message trapped ("" when it did not).
AuthCall(op, caller, args, result, trap) ==
  [op |-> op, args |-> args, result |-> result, caller |-> caller, trap |-> trap]

initializeAccessControl(caller) ==
  /\ accessControlState' = initialize(accessControlState, caller)
  /\ call' = AuthCall("initializeAccessControl", caller, <<>>, <<>>, "")
  /\ UNCHANGED <<stores, now, request, userProfiles, running, frontend>>

getCallerUserRole(caller) ==
  /\ call' = AuthCall("getCallerUserRole", caller, <<>>,
                      getUserRole(accessControlState, caller), "")
  /\ UNCHANGED <<stores, now, request, rest>>

assignCallerUserRole(caller, user, role) ==
  /\ IF isAdmin(accessControlState, caller)
     THEN /\ accessControlState' = assignRole(accessControlState, user, role)
          /\ call' = AuthCall("assignCallerUserRole", caller, <<user, role>>, <<>>, "")
     ELSE /\ accessControlState' = accessControlState
          /\ call' = AuthCall("assignCallerUserRole", caller, <<user, role>>, <<>>,
                              "Unauthorized: Only admins can assign user roles")
  /\ UNCHANGED <<stores, now, request, userProfiles, running, frontend>>

isCallerAdmin(caller) ==
  /\ call' = AuthCall("isCallerAdmin", caller, <<>>, isAdmin(accessControlState, caller), "")
  /\ UNCHANGED <<stores, now, request, rest>>

getCallerUserProfile(caller) ==
  /\ call' = IF ~hasPermission(accessControlState, caller, "user")
             THEN AuthCall("getCallerUserProfile", caller, <<>>, <<>>,
                           "Unauthorized: Only users can save profiles")
             ELSE AuthCall("getCallerUserProfile", caller, <<>>,
                           get(userProfiles, PrincipalToText(caller)), "")
  /\ UNCHANGED <<stores, now, request, rest>>

getUserProfile(caller, id) ==
  LET currentUserProfile == get(userProfiles, PrincipalToText(caller)) IN
  /\ call' = IF /\ currentUserProfile # <<>>
                /\ id # currentUserProfile[1].id
                /\ ~isAdmin(accessControlState, caller)
             THEN AuthCall("getUserProfile", caller, <<id>>, <<>>,
                           "Unauthorized: Can only view your own profile")
             ELSE AuthCall("getUserProfile", caller, <<id>>, get(userProfiles, id), "")
  /\ UNCHANGED <<stores, now, request, rest>>

saveCallerUserProfile_NoGuard(caller, profile) ==
  /\ userProfiles' = put(userProfiles, PrincipalToText(caller), profile)
  /\ call' = AuthCall("saveCallerUserProfile", caller, <<profile>>, <<>>, "")
  /\ UNCHANGED <<stores, now, request, accessControlState, running, frontend>>

saveCallerUserProfile(caller, profile) ==
  /\ IF ~hasPermission(accessControlState, caller, "user")
     THEN /\ userProfiles' = userProfiles
          /\ call' = AuthCall("saveCallerUserProfile", caller, <<profile>>, <<>>,
                              "Unauthorized: Only users can save profiles")
     ELSE /\ userProfiles' = put(userProfiles, PrincipalToText(caller), profile)
          /\ call' = AuthCall("saveCallerUserProfile", caller, <<profile>>, <<>>, "")
  /\ UNCHANGED <<stores, now, request, accessControlState, running, frontend>>

----------------------------------------------------------------------------
(* Export of the quote: lib/pdfExporter.ts, lib/excelParser.ts and the     *)
(* handlers of QuoteSummary.  Text the exporters compose is a sequence of  *)
(* characters; amounts are the integers of the calculators.                *)

\* What index.html may have loaded when the user clicks: window.jspdf is
\* undefined, lacks the jsPDF constructor, makes documents without autoTable,
\* or is complete; window.XLSX is defined or not.
Windows == [jspdf : {"undefined", "noConstructor", "noAutoTable", "loaded"}, XLSX : BOOLEAN]

Pad3(n) == <<Digits[(n \div 100) + 1], Digits[((n \div 10) % 10) + 1], Digits[(n % 10) + 1]>>

\* The integer part with the en-US grouping.
RECURSIVE Grouped(_)
Grouped(n) ==
  IF n < 1000 THEN NatToText(n) ELSE Grouped(n \div 1000) \o <<",">> \o Pad3(n % 1000)

\* value.toLocaleString('en-US', {minimumFractionDigits: 2, maximumFractionDigits: 2})
toLocaleString(value) ==
  (IF value < 0 THEN <<"-">> ELSE <<>>) \o Grouped(Abs(value)) \o <<".", "0", "0">>

formatCurrency(value) == <<"K", "s", "h", "s", " ">> \o toLocaleString(value)

\* Number.prototype.toString
toString(value) == IntToText(value)

QuoteHead ==
  <<"Item Ref No", "Category", "Subcategory", "Description", "Standard Cost", "Quantity",
    "Duration", "Total">>

\* generateQuotePDF with the quantity and duration cells exchanged.
generateQuotePDF_DurationFirst(data) ==
  [title |-> "PROJECT QUOTE",
   header |-> data.header,
   head |-> QuoteHead,
   body |-> [i \in 1..Len(data.items) |->
              LET item == data.items[i] IN
              <<item.itemRefNo, item.category, item.subcategory, item.detailedDescription,
                formatCurrency(item.standardCost), toString(item.duration),
                toString(item.quantity), formatCurrency(item.total)>>],
   grandTotal |-> formatCurrency(data.total)]

\* The document generateQuotePDF draws: title, project information, the
\* autoTable of the items and the Grand Total block.
generateQuotePDF(data) ==
  [title |-> "PROJECT QUOTE",
   header |-> data.header,
   head |-> QuoteHead,
   body |-> [i \in 1..Len(data.items) |->
              LET item == data.items[i] IN
              <<item.itemRefNo, item.category, item.subcategory, item.detailedDescription,
                formatCurrency(item.standardCost), toString(item.quantity),
                toString(item.duration), formatCurrency(item.total)>>],
   grandTotal |-> formatCurrency(data.total)]

\* exportToPDF saving the document before it looks for autoTable.
exportToPDF_SaveFirst(win, data, filename) ==
  IF win.jspdf = "undefined"
  THEN [error |-> "PDF export library is not loaded. Please refresh the page and try again.",
        saved |-> <<>>]
  ELSE IF win.jspdf = "noConstructor"
  THEN [error |-> "PDF table plugin is not loaded. Please refresh the page and try again.",
        saved |-> <<>>]
  ELSE IF win.jspdf = "noAutoTable"
  THEN [error |-> "PDF table functionality is not available. Please refresh the page and try again.",
        saved |-> <<[filename |-> filename, content |-> <<>>]>>]
  ELSE [error |-> "", saved |-> <<[filename |-> filename, content |-> generateQuotePDF(data)]>>]

\* exportToPDF(data, filename, false): the Error it throws ("" when it returns)
\* and the files doc.save has written.
exportToPDF(win, data, filename) ==
  IF win.jspdf = "undefined"
  THEN [error |-> "PDF export library is not loaded. Please refresh the page and try again.",
        saved |-> <<>>]
  ELSE IF win.jspdf = "noConstructor"
  THEN [error |-> "PDF table plugin is not loaded. Please refresh the page and try again.",
        saved |-> <<>>]
  ELSE IF win.jspdf = "noAutoTable"
  THEN [error |-> "PDF table functionality is not available. Please refresh the page and try again.",
        saved |-> <<>>]
  ELSE [error |-> "", saved |-> <<[filename |-> filename, content |-> generateQuotePDF(data)]>>]

\* exportToExcel(data, filename)
exportToExcel(win, data, filename) ==
  IF ~win.XLSX
  THEN [error |-> "Excel export library not loaded. Please refresh the page.", saved |-> <<>>]
  ELSE [error |-> "", saved |-> <<[filename |-> filename, content |-> [sheet |-> "Quote", rows |-> data]]>>]

\* `quote_${projectName}_${date}` with its extension.
Filename(quote, extension) == <<"quote", quote.header.projectName, extension>>

toast(kind, message) == [kind |-> kind, message |-> message]

\* QuoteSummary.handleExportPDF
handleExportPDF ==
  LET quote == quoteSummary.quote[1]
      pdfData ==
        [header |-> quote.header,
         items |-> [i \in 1..Len(quote.items) |->
                     LET item == quote.items[i] IN
                     [itemRefNo |-> item.itemRefNo, category |-> item.category,
                      subcategory |-> item.subcategory,
                      detailedDescription |-> item.detailedDescription,
                      quantity |-> item.quantity, duration |-> item.duration,
                      standardCost |-> item.standardCost, total |-> item.total]],
         total |-> quote.total]
      thrown == exportToPDF(window, pdfData, Filename(quote, "pdf"))
  IN /\ quoteSummary.quote # <<>>
     /\ Len(toasts) < MaxToasts
     /\ downloads' = downloads \o thrown.saved
     /\ toasts' = Append(toasts,
                         IF thrown.error = ""
                         THEN toast("success", "Quote exported to PDF successfully!")
                         ELSE toast("error", thrown.error))
     /\ call' = [op |-> "handleExportPDF", args |-> <<>>, result |-> <<>>]
     /\ UNCHANGED <<stores, now, request, auth, running, pages, window, rateCardManager, quoteSummary>>

\* QuoteSummary.handleExportExcel
handleExportExcel ==
  LET quote == quoteSummary.quote[1]
      excelData ==
        [i \in 1..Len(quote.items) |->
           LET item == quote.items[i] IN
           <<i, item.itemRefNo, item.category, item.subcategory,
             IF item.detailedDescription = "" THEN "-" ELSE item.detailedDescription,
             item.quantity, item.duration, item.standardCost, item.total>>]
          \o <<<<"", "", "", "", "", "", "", "Grand Total:", quote.total>>>>
      thrown == exportToExcel(window, excelData, Filename(quote, "xlsx"))
  IN /\ quoteSummary.quote # <<>>
     /\ Len(toasts) < MaxToasts
     /\ downloads' = downloads \o thrown.saved
     /\ toasts' = Append(toasts,
                         IF thrown.error = ""
                         THEN toast("success", "Quote exported to Excel successfully!")
                         ELSE toast("error", thrown.error))
     /\ call' = [op |-> "handleExportExcel", args |-> <<>>, result |-> <<>>]
     /\ UNCHANGED <<stores, now, request, auth, running, pages, window, rateCardManager, quoteSummary>>

----------------------------------------------------------------------------
(* Upload of a rate card: components/RateCardManager.tsx and the parser of  *)
(* lib/excelParser.ts.  A file is its extension, the cells of its first row *)
(* and the cells of its data rows, every cell a sequence of characters: the *)
(* split into lines and cells (parseCSVLine, XLSX.utils.sheet_to_json) is   *)
(* taken as done.  Costs are written without a fraction.                    *)

\* First rows of the files: the names of the template, accepted synonyms
\* with the two cost columns exchanged, and a first row without standardCost.
\* fields tells which field the author of the file put in each column.
HeaderRows ==
  {[names |-> <<"itemRefNo", "category", "subcategory", "detailedDescription",
                "opsBriskCost", "standardCost">>,
    fields |-> <<"itemRefNo", "category", "subcategory", "detailedDescription",
                 "opsBriskCost", "standardCost">>],
   [names |-> <<"Item Ref No", "Category", "Sub Category", " Description", "Cost",
                "Brisk Cost">>,
    fields |-> <<"itemRefNo", "category", "subcategory", "detailedDescription",
                 "standardCost", "opsBriskCost">>],
   [names |-> <<"itemRefNo", "category", "subcategory", "detailedDescription",
                "opsBriskCost">>,
    fields |-> <<"itemRefNo", "category", "subcategory", "detailedDescription",
                 "opsBriskCost">>]}

CostCells == {<<"8", "0">>, <<" ", "9", "0">>, <<"8", "x">>, <<"x">>, <<>>}

DataRow(itemRefNo, standardCost) ==
  [itemRefNo |-> itemRefNo, category |-> <<"c">>, subcategory |-> <<"s">>,
   detailedDescription |-> <<"d">>, opsBriskCost |-> <<"8", "0">>,
   standardCost |-> standardCost]

\* Rows with a reference and any of the cost cells, and a row without one.
DataRows ==
  {DataRow(<<"R", "1">>, standardCost) : standardCost \in CostCells}
    \cup {DataRow(<<>>, <<"8", "0">>)}

FileOf(extension, headerRow, dataRows) ==
  [extension |-> extension,
   headers |-> headerRow.names,
   rows |-> [i \in 1..Len(dataRows) |->
              [c \in 1..Len(headerRow.fields) |-> dataRows[i][headerRow.fields[c]]]]]

Files ==
  {FileOf(extension, headerRow, dataRows) :
     extension \in {"csv", "xlsx"}, headerRow \in HeaderRows,
     dataRows \in SeqsUpTo(DataRows, MaxItems)}
    \cup {FileOf("txt", headerRow, <<>>) : headerRow \in HeaderRows}

\* h.toLowerCase().trim() on the names above
LowerTrim(h) ==
  CASE h = "itemRefNo" -> "itemrefno"
    [] h = "Item Ref No" -> "item ref no"
    [] h = "Category" -> "category"
    [] h = "Sub Category" -> "sub category"
    [] h = "detailedDescription" -> "detaileddescription"
    [] h = " Description" -> "description"
    [] h = "opsBriskCost" -> "opsbriskcost"
    [] h = "Brisk Cost" -> "brisk cost"
    [] h = "standardCost" -> "standardcost"
    [] h = "Cost" -> "cost"
    [] OTHER -> h

\* headers.findIndex(h => h is one of names), counted from 1; 0 for -1.
findIndex(headers, names) ==
  IF \E c \in 1..Len(headers) : headers[c] \in names
  THEN CHOOSE c \in 1..Len(headers) :
         /\ headers[c] \in names
         /\ \A b \in 1..(c - 1) : headers[b] \notin names
  ELSE 0

RECURSIVE TrimStart(_)
TrimStart(chars) ==
  IF chars # <<>> /\ Head(chars) = " " THEN TrimStart(Tail(chars)) ELSE chars

RECURSIVE TrimEnd(_)
TrimEnd(chars) ==
  IF chars # <<>> /\ chars[Len(chars)] = " "
  THEN TrimEnd(SubSeq(chars, 1, Len(chars) - 1))
  ELSE chars

\* String.prototype.trim
trim(chars) == TrimEnd(TrimStart(chars))

\* values[idx]?.trim(), with <<>> for undefined and for ''
cell(values, idx) == IF idx <= Len(values) THEN trim(values[idx]) ELSE <<>>

DigitValue(ch) == CHOOSE d \in 0..9 : Digits[d + 1] = ch

IsDigit(ch) == \E d \in 0..9 : Digits[d + 1] = ch

RECURSIVE DigitPrefix(_)
DigitPrefix(chars) ==
  IF chars # <<>> /\ IsDigit(Head(chars)) THEN <<Head(chars)>> \o DigitPrefix(Tail(chars))
  ELSE <<>>

RECURSIVE ValueOf(_, _)
ValueOf(digits, acc) ==
  IF digits = <<>> THEN acc ELSE ValueOf(Tail(digits), 10 * acc + DigitValue(Head(digits)))

\* parseFloat: the number written by the longest prefix that is a numeral,
\* whatever follows it; NaN when there is no such prefix.
parseFloat(chars) ==
  LET digits == DigitPrefix(TrimStart(chars)) IN
  IF digits = <<>> THEN [nan |-> TRUE, value |-> 0]
  ELSE [nan |-> FALSE, value |-> ValueOf(digits, 0)]

\* The loop over the data rows, common to parseCSVFile and parseExcelFile:
\* the rows it keeps, each with its row number, and the numbers of the rows
\* it reports for an invalid cost.
RECURSIVE parseRows(_, _, _, _)
parseRows(rows, idx, i, acc) ==
  IF i > Len(rows) THEN acc
  ELSE LET values == rows[i]
           itemRefNo == cell(values, idx.itemRefNo)
           opsBriskCostStr == cell(values, idx.opsBriskCost)
           standardCostStr == cell(values, idx.standardCost)
           opsBriskCost == parseFloat(opsBriskCostStr)
           standardCost == parseFloat(standardCostStr)
       IN IF itemRefNo = <<>> \/ opsBriskCostStr = <<>> \/ standardCostStr = <<>>
          THEN parseRows(rows, idx, i + 1, acc)
          ELSE IF opsBriskCost.nan \/ standardCost.nan
          THEN parseRows(rows, idx, i + 1, [acc EXCEPT !.invalid = Append(@, i)])
          ELSE parseRows(rows, idx, i + 1,
                 [acc EXCEPT !.items = Append(@,
                    [row |-> i, itemRefNo |-> itemRefNo,
                     category |-> cell(values, idx.category),
                     subcategory |-> cell(values, idx.subcategory),
                     detailedDescription |-> cell(values, idx.detailedDescription),
                     opsBriskCost |-> opsBriskCost.value,
                     standardCost |-> standardCost.value])])

\* The column indices, the validation of the required columns and the loop:
\* missing is TRUE when a required column was not found.
parseSheet(file) ==
  LET headers == [c \in 1..Len(file.headers) |-> LowerTrim(file.headers[c])]
      idx == [itemRefNo |-> findIndex(headers, {"itemrefno", "item ref no",
                                                "item reference number"}),
              category |-> findIndex(headers, {"category"}),
              subcategory |-> findIndex(headers, {"subcategory", "sub category"}),
              detailedDescription |-> findIndex(headers, {"detaileddescription",
                                                          "detailed description",
                                                          "description"}),
              opsBriskCost |-> findIndex(headers, {"opsbriskcost", "ops brisk cost",
                                                   "brisk cost"}),
              standardCost |-> findIndex(headers, {"standardcost", "standard cost", "cost"})]
  IN IF \E f \in DOMAIN idx : idx[f] = 0
     THEN [missing |-> TRUE, items |-> <<>>, invalid |-> <<>>]
     ELSE parseRows(file.rows, idx, 1, [missing |-> FALSE, items |-> <<>>, invalid |-> <<>>])

\* `item-${Date.now()}-${index}`; the page's clock is the counter now.
ItemId(index) == <<"i", "t", "e", "m", "-">> \o NatToText(now) \o <<"-">> \o NatToText(index)

UploadItem(parsed, index) ==
  [id |-> ItemId(index), itemRefNo |-> parsed.itemRefNo, category |-> parsed.category,
   subcategory |-> parsed.subcategory, detailedDescription |-> parsed.detailedDescription,
   opsBriskCost |-> parsed.opsBriskCost, standardCost |-> parsed.standardCost]

\* parseCSVFile and its reader.onload: the toasts it shows and, when it
\* accepts the file, the items it hands to the preview.
parseCSVFile(file) ==
  LET sheet == parseSheet(file)
      invalidToasts ==
        [k \in 1..Len(sheet.invalid) |->
           toast("error", <<"Invalid cost on line", sheet.invalid[k] + 1>>)]
      items == [k \in 1..Len(sheet.items) |-> UploadItem(sheet.items[k], sheet.items[k].row)]
  IN IF Len(file.rows) < 1
     THEN [accepted |-> FALSE, items |-> <<>>,
           toasts |-> <<toast("error",
                          "CSV file must contain at least a header row and one data row")>>]
     ELSE IF sheet.missing
     THEN [accepted |-> FALSE, items |-> <<>>,
           toasts |-> <<toast("error", "CSV file must contain columns: itemRefNo, category, subcategory, detailedDescription, opsBriskCost, standardCost")>>]
     ELSE IF items = <<>>
     THEN [accepted |-> FALSE, items |-> <<>>,
           toasts |-> invalidToasts \o
                      <<toast("error", "No valid items found in the CSV file")>>]
     ELSE [accepted |-> TRUE, items |-> items,
           toasts |-> invalidToasts \o
                      <<toast("success", <<"Parsed", Len(items), "items from CSV file">>)>>]

\* parseExcelFileHandler around parseExcelFile: an invalid cost is written to
\* the console only.
parseExcelFileHandler(win, file) ==
  LET sheet == parseSheet(file)
      items == [k \in 1..Len(sheet.items) |-> UploadItem(sheet.items[k], k - 1)]
  IN IF ~win.XLSX
     THEN [accepted |-> FALSE, items |-> <<>>,
           toasts |-> <<toast("error",
                          "Excel parser library not loaded. Please refresh the page.")>>]
     ELSE IF Len(file.rows) < 1
     THEN [accepted |-> FALSE, items |-> <<>>,
           toasts |-> <<toast("error",
                          "Excel file must contain at least a header row and one data row")>>]
     ELSE IF sheet.missing
     THEN [accepted |-> FALSE, items |-> <<>>,
           toasts |-> <<toast("error", "Excel file must contain columns: itemRefNo, category, subcategory, detailedDescription, opsBriskCost, standardCost")>>]
     ELSE IF items = <<>>
     THEN [accepted |-> FALSE, items |-> <<>>,
           toasts |-> <<toast("error", "No valid items found in the Excel file")>>]
     ELSE [accepted |-> TRUE, items |-> items,
           toasts |-> <<toast("success", <<"Parsed", Len(items), "items from Excel file">>)>>]

\* handleFileChange, with the parser it starts and the parser's callback.  The
\* file input is rendered only while no preview is shown.
handleFileChange(selectedFile) ==
  LET parsed == IF selectedFile.extension = "xlsx"
                THEN parseExcelFileHandler(window, selectedFile)
                ELSE parseCSVFile(selectedFile)
  IN /\ ~rateCardManager.showPreview
     /\ IF selectedFile.extension \notin {"csv", "xlsx"}
        THEN /\ toasts' = Append(toasts,
                            toast("error", "Please upload a CSV or Excel (.xlsx) file"))
             /\ rateCardManager' = rateCardManager
        ELSE /\ toasts' = toasts \o parsed.toasts
             /\ rateCardManager' =
                  IF parsed.accepted
                  THEN [rateCardManager EXCEPT !.file = <<selectedFile>>,
                                               !.parsedData = parsed.items,
                                               !.showPreview = TRUE]
                  ELSE [rateCardManager EXCEPT !.file = <<selectedFile>>]
     /\ Len(toasts') <= MaxToasts
     /\ call' = [op |-> "handleFileChange", args |-> <<selectedFile>>, result |-> <<>>]
     /\ UNCHANGED <<stores, now, request, auth, running, pages, window, quoteSummary, downloads>>

\* handleConfirmUpdate: updateRateCard(parsedData, {onSuccess, onError}) starts
\* the mutation; Confirm and Cancel are disabled while it is pending.
handleConfirmUpdate ==
  /\ rateCardManager.showPreview
  /\ ~rateCardManager.isUpdating
  /\ rateCardManager' = [rateCardManager EXCEPT !.isUpdating = TRUE]
  /\ call' = [op |-> "handleConfirmUpdate", args |-> <<>>, result |-> <<>>]
  /\ UNCHANGED <<stores, now, request, auth, running, pages, window, quoteSummary, toasts,
                 downloads>>

\* The mutation succeeds: the actor has executed updateRateCard(parsedData),
\* then onSuccess runs.
updateRateCardOnSuccess ==
  /\ rateCardManager.isUpdating
  /\ Len(toasts) < MaxToasts
  /\ rateCardItems' = PutAll(empty, rateCardManager.parsedData)
  /\ toasts' = Append(toasts, toast("success", "Rate card updated successfully!"))
  /\ rateCardManager' = NoUpload
  /\ call' = [op |-> "updateRateCard", args |-> <<rateCardManager.parsedData>>,
              result |-> <<>>]
  /\ UNCHANGED <<quoteHistory, accountManagers, uploadedFiles, now, request, auth, running, pages,
                 window, quoteSummary, downloads>>

\* updateRateCardOnError closing the preview as onSuccess does.
updateRateCardOnError_Clear ==
  /\ rateCardManager.isUpdating
  /\ Len(toasts) < MaxToasts
  /\ toasts' = Append(toasts,
                      toast("error", "Failed to update rate card: Actor not available"))
  /\ rateCardManager' = NoUpload
  /\ call' = [op |-> "updateRateCard", args |-> <<rateCardManager.parsedData>>,
              result |-> <<"Actor not available">>]
  /\ UNCHANGED <<stores, now, request, auth, running, pages, window, quoteSummary, downloads>>

\* The mutation fails ('Actor not available'): onError runs, the preview stays.
updateRateCardOnError ==
  /\ rateCardManager.isUpdating
  /\ Len(toasts) < MaxToasts
  /\ toasts' = Append(toasts,
                      toast("error", "Failed to update rate card: Actor not available"))
  /\ rateCardManager' = [rateCardManager EXCEPT !.isUpdating = FALSE]
  /\ call' = [op |-> "updateRateCard", args |-> <<rateCardManager.parsedData>>,
              result |-> <<"Actor not available">>]
  /\ UNCHANGED <<stores, now, request, auth, running, pages, window, quoteSummary, downloads>>

\* handleCancelPreview
handleCancelPreview ==
  /\ rateCardManager.showPreview
  /\ ~rateCardManager.isUpdating
  /\ rateCardManager' = NoUpload
  /\ call' = [op |-> "handleCancelPreview", args |-> <<>>, result |-> <<>>]
  /\ UNCHANGED <<stores, now, request, auth, running, pages, window, quoteSummary, toasts,
                 downloads>>

----------------------------------------------------------------------------
(* QuoteGenerator: the selection, its preview table and the analysis.      *)
(* An index is counted from 1: row i of the model is row i - 1 of the code. *)
(* filterCategory and filterSubcategory are not kept: changing either      *)
(* resets filterDescription, so a chosen description implies both.         *)

\* What the handlers of the three pages leave alone besides the stores.
others == <<auth, running, window, rateCardManager, quoteSummary, downloads>>

\* parseInt: an optional sign and the longest run of digits after it,
\* whatever follows; NaN when there is no digit.
parseInt(chars) ==
  LET text == TrimStart(chars)
      negative == text # <<>> /\ Head(text) = "-"
      digits == DigitPrefix(IF negative THEN Tail(text) ELSE text)
  IN IF digits = <<>> THEN [nan |-> TRUE, value |-> 0]
     ELSE [nan |-> FALSE,
           value |-> IF negative THEN 0 - ValueOf(digits, 0) ELSE ValueOf(digits, 0)]

\* parseInt(e.target.value) || 1
parseIntOr1(chars) ==
  LET n == parseInt(chars) IN IF n.nan \/ n.value = 0 THEN 1 ELSE n.value

\* Math.max
max(a, b) == IF a >= b THEN a ELSE b

\* What is typed into a quantity or duration input.
NumberTexts == {<<>>, <<"0">>, <<"-", "3">>, <<"2">>, <<"2", "t">>, <<"t">>}

\* rateCard.items.find((r) => r.id === id)
find(items, id) ==
  IF \E i \in 1..Len(items) : items[i].id = id
  THEN <<items[CHOOSE i \in 1..Len(items) :
                 /\ items[i].id = id
                 /\ \A j \in 1..(i - 1) : items[j].id # id]>>
  ELSE <<>>

\* The rows of the preview table: the selected items found in the fetched
\* rate card, in the order of selectedItems; the others are left out.
RECURSIVE liveQuoteItems(_, _)
liveQuoteItems(rateCard, selectedItems) ==
  IF selectedItems = <<>> THEN <<>>
  ELSE LET item == Head(selectedItems)
           rateItem == find(rateCard, item.id)
           tail == liveQuoteItems(rateCard, Tail(selectedItems))
       IN IF item.id = <<>> \/ rateItem = <<>> THEN tail
          ELSE <<[id |-> rateItem[1].id, itemRefNo |-> rateItem[1].itemRefNo,
                  category |-> rateItem[1].category,
                  subcategory |-> rateItem[1].subcategory,
                  detailedDescription |-> rateItem[1].detailedDescription,
                  opsBriskCost |-> rateItem[1].opsBriskCost,
                  standardCost |-> rateItem[1].standardCost,
                  quantity |-> item.quantity, duration |-> item.duration,
                  total |-> rateItem[1].standardCost * item.quantity * item.duration]>>
               \o tail

RECURSIVE SumTotals(_)
SumTotals(items) == IF items = <<>> THEN 0 ELSE Head(items).total + SumTotals(Tail(items))

liveQuoteData ==
  LET items == liveQuoteItems(quoteGenerator.rateCard, quoteGenerator.selectedItems)
  IN [items |-> items, total |-> SumTotals(items)]

\* The form of QuoteGenerator is on screen: its tab is the active one, no
\* generated quote replaces it, and the fetched rate card has items.
FormShown ==
  /\ mainApp.activeTab = "quote"
  /\ quoteGenerator.generatedQuote = <<>>
  /\ quoteGenerator.rateCard # <<>>

\* The rate card query answers, the first time or on a refetch.
useGetRateCard ==
  /\ mainApp.activeTab = "quote"
  /\ quoteGenerator' = [quoteGenerator EXCEPT !.rateCard = vals(rateCardItems)]
  /\ call' = [op |-> "getRateCard", args |-> <<>>,
              result |-> [items |-> vals(rateCardItems)]]
  /\ UNCHANGED <<stores, now, request, others, toasts, analysisTab, mainApp>>

\* onValueChange of the description select: one of the fetched descriptions.
setFilterDescription(id) ==
  /\ FormShown
  /\ find(quoteGenerator.rateCard, id) # <<>>
  /\ quoteGenerator' = [quoteGenerator EXCEPT !.filterDescription = id]
  /\ call' = [op |-> "setFilterDescription", args |-> <<id>>, result |-> <<>>]
  /\ UNCHANGED <<stores, now, request, others, toasts, analysisTab, mainApp>>

\* handleAddItem; the Add button is disabled while no description is chosen.
handleAddItem ==
  /\ FormShown
  /\ quoteGenerator.filterDescription # <<>>
  /\ Len(toasts) < MaxToasts
  /\ IF find(quoteGenerator.selectedItems, quoteGenerator.filterDescription) # <<>>
     THEN /\ toasts' = Append(toasts,
                              toast("error", "This item is already added to the quote"))
          /\ UNCHANGED quoteGenerator
     ELSE /\ quoteGenerator' =
               [quoteGenerator EXCEPT
                  !.selectedItems = Append(@, [id |-> quoteGenerator.filterDescription,
                                               quantity |-> 1, duration |-> 1]),
                  !.filterDescription = <<>>,
                  !.analysisData = <<>>]
          /\ toasts' = Append(toasts, toast("success", "Item added to quote"))
  /\ call' = [op |-> "handleAddItem", args |-> <<>>, result |-> <<>>]
  /\ UNCHANGED <<stores, now, request, others, analysisTab, mainApp>>

\* selectedItems.filter((_, i) => i !== index)
RemoveAt(list, index) ==
  [i \in 1..(Len(list) - 1) |-> IF i < index THEN list[i] ELSE list[i + 1]]

\* handleRemoveItem(index), from the button of row index of the preview table
handleRemoveItem(index) ==
  /\ FormShown
  /\ index \in 1..Len(liveQuoteData.items)
  /\ Len(toasts) < MaxToasts
  /\ quoteGenerator' =
       [quoteGenerator EXCEPT !.selectedItems = RemoveAt(@, index), !.analysisData = <<>>]
  /\ toasts' = Append(toasts, toast("success", "Item removed from quote"))
  /\ call' = [op |-> "handleRemoveItem", args |-> <<index>>, result |-> <<>>]
  /\ UNCHANGED <<stores, now, request, others, analysisTab, mainApp>>

\* handleQuantityChange storing the number as it was parsed.
handleQuantityChange_NoMax(index, text) ==
  /\ FormShown
  /\ index \in 1..Len(liveQuoteData.items)
  /\ quoteGenerator' =
       [quoteGenerator EXCEPT
          !.selectedItems[index].quantity = parseIntOr1(text), !.analysisData = <<>>]
  /\ call' = [op |-> "handleQuantityChange", args |-> <<index, text>>, result |-> <<>>]
  /\ UNCHANGED <<stores, now, request, others, toasts, analysisTab, mainApp>>

\* onChange of the quantity input of row index:
\* handleQuantityChange(index, parseInt(e.target.value) || 1)
handleQuantityChange(index, text) ==
  /\ FormShown
  /\ index \in 1..Len(liveQuoteData.items)
  /\ quoteGenerator' =
       [quoteGenerator EXCEPT
          !.selectedItems[index].quantity = max(1, parseIntOr1(text)),
          !.analysisData = <<>>]
  /\ call' = [op |-> "handleQuantityChange", args |-> <<index, text>>, result |-> <<>>]
  /\ UNCHANGED <<stores, now, request, others, toasts, analysisTab, mainApp>>

\* onChange of the duration input of row index:
\* handleDurationChange(index, parseInt(e.target.value) || 1)
handleDurationChange(index, text) ==
  /\ FormShown
  /\ index \in 1..Len(liveQuoteData.items)
  /\ quoteGenerator' =
       [quoteGenerator EXCEPT
          !.selectedItems[index].duration = max(1, parseIntOr1(text)),
          !.analysisData = <<>>]
  /\ call' = [op |-> "handleDurationChange", args |-> <<index, text>>, result |-> <<>>]
  /\ UNCHANGED <<stores, now, request, others, toasts, analysisTab, mainApp>>

\* handleReset
handleReset ==
  /\ FormShown
  /\ Len(toasts) < MaxToasts
  /\ quoteGenerator' =
       [quoteGenerator EXCEPT
          !.selectedItems = <<>>, !.clientName = <<>>, !.projectDuration = <<>>,
          !.accountManager = <<>>, !.projectName = <<>>, !.filterDescription = <<>>,
          !.analysisData = <<>>]
  /\ toasts' = Append(toasts, toast("success", "Quote fields cleared"))
  /\ call' = [op |-> "handleReset", args |-> <<>>, result |-> <<>>]
  /\ UNCHANGED <<stores, now, request, others, analysisTab, mainApp>>

\* selectedItems.filter((item) => item.id && item.quantity > 0 && item.duration > 0)
RECURSIVE validItems(_)
validItems(selectedItems) ==
  IF selectedItems = <<>> THEN <<>>
  ELSE LET item == Head(selectedItems)
       IN (IF item.id # <<>> /\ item.quantity > 0 /\ item.duration > 0
           THEN <<item>> ELSE <<>>) \o validItems(Tail(selectedItems))

\* validItems.map((item) => [item.id, BigInt(item.quantity), BigInt(item.duration)])
quoteItems(items) ==
  [i \in 1..Len(items) |-> <<items[i].id, items[i].quantity, items[i].duration>>]

\* handleAnalyzeQuote; the button is disabled while an analysis is pending
\* and while nothing is selected.
handleAnalyzeQuote ==
  /\ FormShown
  /\ quoteGenerator.analyzing = <<>>
  /\ quoteGenerator.selectedItems # <<>>
  /\ IF validItems(quoteGenerator.selectedItems) = <<>>
     THEN /\ Len(toasts) < MaxToasts
          /\ toasts' = Append(toasts,
                              toast("error", "Please add at least one item to analyze"))
          /\ UNCHANGED quoteGenerator
     ELSE /\ quoteGenerator' =
               [quoteGenerator EXCEPT
                  !.analyzing = <<quoteItems(validItems(quoteGenerator.selectedItems))>>]
          /\ UNCHANGED toasts
  /\ call' = [op |-> "handleAnalyzeQuote", args |-> <<>>, result |-> <<>>]
  /\ UNCHANGED <<stores, now, request, others, analysisTab, mainApp>>

\* The pending analysis succeeds: the actor has executed generateAnalysis on
\* the items sent, then onSuccess runs.
generateAnalysisOnSuccess ==
  LET analysis == generateAnalysisLoop(rateCardItems, quoteGenerator.analyzing[1],
                    [items |-> <<>>, totalMargin |-> 0, totalProfit |-> 0])
  IN /\ quoteGenerator.analyzing # <<>>
     /\ Len(toasts) < MaxToasts
     /\ quoteGenerator' =
          [quoteGenerator EXCEPT !.analysisData = <<analysis>>, !.analyzing = <<>>]
     /\ toasts' = Append(toasts, toast("success", "Analysis generated successfully!"))
     /\ call' = [op |-> "generateAnalysis", args |-> <<quoteGenerator.analyzing[1]>>,
                 result |-> analysis]
     /\ UNCHANGED <<stores, now, request, others, analysisTab, mainApp>>

\* The pending analysis fails ('Actor not available'): onError runs.
generateAnalysisOnError ==
  /\ quoteGenerator.analyzing # <<>>
  /\ Len(toasts) < MaxToasts
  /\ quoteGenerator' = [quoteGenerator EXCEPT !.analyzing = <<>>]
  /\ toasts' = Append(toasts,
                      toast("error", "Failed to generate analysis: Actor not available"))
  /\ call' = [op |-> "generateAnalysis", args |-> <<quoteGenerator.analyzing[1]>>,
              result |-> <<"Actor not available">>]
  /\ UNCHANGED <<stores, now, request, others, analysisTab, mainApp>>

----------------------------------------------------------------------------

(* MainApp: the tabs, and what a change of its state mounts and unmounts.  *)
(* Only the content of the active tab can be clicked. The content of an    *)
(* inactive tab is unmounted, or kept mounted when the tabs force it; a    *)
(* page that is mounted again starts from its initial state. The requests  *)
(* of an unmounted page still reach the actor, their callbacks never run.  *)

TabValues == {"quote", "analysis", "history", "reports", "ratecard", "settings"}

\* <QuoteGenerator> is rendered under the MainApp state m.
QuoteGeneratorMounted(m) == m.forceMount \/ m.activeTab = "quote"

\* <AnalysisTab> is rendered under the MainApp state m.
AnalysisTabMounted(m) ==
  /\ m.currentQuote # <<>>
  /\ m.forceMount \/ m.activeTab = "analysis"

\* The initial editableItems of AnalysisTab for the items of its quote.
EditableItems(items) ==
  [i \in 1..Len(items) |->
     [id |-> items[i].id, itemRefNo |-> items[i].itemRefNo,
      category |-> items[i].category, subcategory |-> items[i].subcategory,
      detailedDescription |-> items[i].detailedDescription,
      opsBriskCost |-> items[i].opsBriskCost, standardCost |-> items[i].standardCost,
      quantity |-> items[i].quantity, duration |-> items[i].duration]]

\* The updateStandardCost requests of AnalysisTab that have not been answered.
RECURSIVE PendingUpdates(_)
PendingUpdates(requests) ==
  IF requests = <<>> THEN <<>>
  ELSE (IF Head(requests).status = "pending"
        THEN <<[op |-> "updateStandardCost",
                args |-> <<Head(requests).itemId, Head(requests).newStandardCost>>]>>
        ELSE <<>>) \o PendingUpdates(Tail(requests))

\* The generateFullQuote request of QuoteGenerator that has not been answered;
\* a generateAnalysis request changes nothing in the actor and is not kept.
PendingQuotes(qg) ==
  IF qg.generating = <<>> THEN <<>>
  ELSE <<[op |-> "generateFullQuote",
          args |-> <<qg.generating[1].header, qg.generating[1].selectedItems>>]>>

\* The requests of the pages that are in flight.
InFlight ==
  Len(mainApp.unobserved) + Len(PendingUpdates(analysisTab.requests))
    + Len(PendingQuotes(quoteGenerator))

\* MainApp renders after its state has changed from mainApp to m, while the
\* handler has left QuoteGenerator as qg and AnalysisTab as at.
Render(qg, at, m) ==
  /\ quoteGenerator' =
       IF QuoteGeneratorMounted(mainApp) /\ QuoteGeneratorMounted(m) THEN qg
       ELSE NoQuoteGenerator
  /\ analysisTab' =
       IF ~AnalysisTabMounted(m) THEN NoAnalysisTab
       ELSE IF AnalysisTabMounted(mainApp) THEN at
       ELSE [NoAnalysisTab EXCEPT !.editableItems = EditableItems(m.currentQuote[1].items)]
  /\ mainApp' =
       [m EXCEPT !.unobserved =
          @ \o (IF QuoteGeneratorMounted(mainApp) /\ ~QuoteGeneratorMounted(m)
                THEN PendingQuotes(qg) ELSE <<>>)
            \o (IF AnalysisTabMounted(mainApp) /\ ~AnalysisTabMounted(m)
                THEN PendingUpdates(at.requests) ELSE <<>>)]

\* onValueChange of the tabs: a trigger that is not disabled was clicked.
setActiveTab(tab) ==
  /\ tab # mainApp.activeTab
  /\ tab = "analysis" => mainApp.currentQuote # <<>>
  /\ Render(quoteGenerator, analysisTab, [mainApp EXCEPT !.activeTab = tab])
  /\ call' = [op |-> "setActiveTab", args |-> <<tab>>, result |-> <<>>]
  /\ UNCHANGED <<stores, now, request, others, toasts>>

\* handleQuoteGenerated switching to the analysis tab whatever it is given.
handleQuoteGenerated_AlwaysSwitch(m, quote) ==
  [m EXCEPT !.currentQuote = quote, !.activeTab = "analysis"]

\* handleQuoteGenerated(quote), quote being <<>> for null
handleQuoteGenerated(m, quote) ==
  IF quote # <<>> THEN [m EXCEPT !.currentQuote = quote, !.activeTab = "analysis"]
  ELSE [m EXCEPT !.currentQuote = quote]

\* handleLoadQuote(quote)
handleLoadQuote(m, quote) == [m EXCEPT !.currentQuote = <<quote>>, !.activeTab = "analysis"]

\* QuoteHistoryTab.handleViewQuote(historyItem), for an item of the history
handleViewQuote(id) ==
  /\ mainApp.activeTab = "history"
  /\ id \in DOMAIN quoteHistory
  /\ Render(quoteGenerator, analysisTab,
            handleLoadQuote(mainApp, [header |-> quoteHistory[id].header,
                                      items |-> quoteHistory[id].items,
                                      total |-> quoteHistory[id].total]))
  /\ call' = [op |-> "handleViewQuote", args |-> <<id>>, result |-> <<>>]
  /\ UNCHANGED <<stores, now, request, others, toasts>>

\* A request of an unmounted page is answered: the actor has executed it
\* (ok) or the call has failed; nothing of the page is left to tell.
unobservedResponse(k, ok) ==
  LET sent == mainApp.unobserved[k]
      quote == generateFullQuoteLoop(rateCardItems, sent.args[2],
                                     [items |-> <<>>, total |-> 0])
  IN /\ k \in 1..Len(mainApp.unobserved)
     /\ mainApp' = [mainApp EXCEPT !.unobserved = RemoveAt(@, k)]
     /\ IF ok /\ sent.op = "generateFullQuote"
        THEN /\ quoteHistory' =
                  put(quoteHistory, IntToText(now),
                      [id |-> IntToText(now), timestamp |-> now, header |-> sent.args[1],
                       items |-> quote.items, total |-> quote.total])
             /\ UNCHANGED rateCardItems
        ELSE IF ok /\ sent.args[1] \in DOMAIN rateCardItems
        THEN /\ rateCardItems' =
                  put(rateCardItems, sent.args[1],
                      [rateCardItems[sent.args[1]] EXCEPT !.standardCost = sent.args[2]])
             /\ UNCHANGED quoteHistory
        ELSE UNCHANGED <<rateCardItems, quoteHistory>>
     /\ call' = [op |-> sent.op, args |-> sent.args,
                 result |-> IF ok THEN <<>> ELSE <<"Actor not available">>]
     /\ UNCHANGED <<accountManagers, uploadedFiles, now, request, others, toasts,
                    quoteGenerator, analysisTab>>

----------------------------------------------------------------------------
(* QuoteGenerator: the header fields and the generated quote *)

\* What is typed into a header input: nothing, a blank, a padded name.
HeaderTexts == {<<>>, <<" ">>, <<" ", "A", " ">>}

\* onChange of the client name input
setClientName(text) ==
  /\ FormShown
  /\ quoteGenerator' = [quoteGenerator EXCEPT !.clientName = text]
  /\ call' = [op |-> "setClientName", args |-> <<text>>, result |-> <<>>]
  /\ UNCHANGED <<stores, now, request, others, toasts, analysisTab, mainApp>>

\* onChange of the project name input
setProjectName(text) ==
  /\ FormShown
  /\ quoteGenerator' = [quoteGenerator EXCEPT !.projectName = text]
  /\ call' = [op |-> "setProjectName", args |-> <<text>>, result |-> <<>>]
  /\ UNCHANGED <<stores, now, request, others, toasts, analysisTab, mainApp>>

\* onChange of the project duration input
setProjectDuration(text) ==
  /\ FormShown
  /\ quoteGenerator' = [quoteGenerator EXCEPT !.projectDuration = text]
  /\ call' = [op |-> "setProjectDuration", args |-> <<text>>, result |-> <<>>]
  /\ UNCHANGED <<stores, now, request, others, toasts, analysisTab, mainApp>>

\* onSelect of an account manager of the list: setAccountManager(manager.name)
setAccountManager(id) ==
  /\ FormShown
  /\ id \in DOMAIN accountManagers
  /\ quoteGenerator' = [quoteGenerator EXCEPT !.accountManager = accountManagers[id].name]
  /\ call' = [op |-> "setAccountManager", args |-> <<id>>, result |-> <<>>]
  /\ UNCHANGED <<stores, now, request, others, toasts, analysisTab, mainApp>>

\* The header handleGenerateQuote sends.
TrimmedHeader(qg) ==
  [clientName |-> trim(qg.clientName), projectDuration |-> trim(qg.projectDuration),
   accountManager |-> trim(qg.accountManager), projectName |-> trim(qg.projectName)]

\* handleGenerateQuote sending the header fields as they were typed.
handleGenerateQuote_NoTrim ==
  LET header == [clientName |-> quoteGenerator.clientName,
                 projectDuration |-> quoteGenerator.projectDuration,
                 accountManager |-> quoteGenerator.accountManager,
                 projectName |-> quoteGenerator.projectName]
  IN /\ FormShown
     /\ quoteGenerator.generating = <<>>
     /\ quoteGenerator.selectedItems # <<>>
     /\ IF validItems(quoteGenerator.selectedItems) = <<>>
        THEN /\ Len(toasts) < MaxToasts
             /\ toasts' = Append(toasts,
                  toast("error", "Please add at least one item to generate a quote"))
             /\ UNCHANGED quoteGenerator
        ELSE IF \E f \in DOMAIN header : header[f] = <<>>
        THEN /\ Len(toasts) < MaxToasts
             /\ toasts' = Append(toasts, toast("error", "Please fill in all header fields"))
             /\ UNCHANGED quoteGenerator
        ELSE /\ InFlight < MaxInFlight
             /\ quoteGenerator' =
                  [quoteGenerator EXCEPT !.generating =
                     <<[header |-> header,
                        selectedItems |->
                          quoteItems(validItems(quoteGenerator.selectedItems))]>>]
             /\ UNCHANGED toasts
     /\ call' = [op |-> "handleGenerateQuote", args |-> <<>>, result |-> <<>>]
     /\ UNCHANGED <<stores, now, request, others, analysisTab, mainApp>>

\* handleGenerateQuote; the button is disabled while a quote is being
\* generated and while nothing is selected.
handleGenerateQuote ==
  LET header == TrimmedHeader(quoteGenerator)
  IN /\ FormShown
     /\ quoteGenerator.generating = <<>>
     /\ quoteGenerator.selectedItems # <<>>
     /\ IF validItems(quoteGenerator.selectedItems) = <<>>
        THEN /\ Len(toasts) < MaxToasts
             /\ toasts' = Append(toasts,
                  toast("error", "Please add at least one item to generate a quote"))
             /\ UNCHANGED quoteGenerator
        ELSE IF \E f \in DOMAIN header : header[f] = <<>>
        THEN /\ Len(toasts) < MaxToasts
             /\ toasts' = Append(toasts, toast("error", "Please fill in all header fields"))
             /\ UNCHANGED quoteGenerator
        ELSE /\ InFlight < MaxInFlight
             /\ quoteGenerator' =
                  [quoteGenerator EXCEPT !.generating =
                     <<[header |-> header,
                        selectedItems |->
                          quoteItems(validItems(quoteGenerator.selectedItems))]>>]
             /\ UNCHANGED toasts
     /\ call' = [op |-> "handleGenerateQuote", args |-> <<>>, result |-> <<>>]
     /\ UNCHANGED <<stores, now, request, others, analysisTab, mainApp>>

\* The pending generateFullQuote succeeds: the actor has executed it on the
\* request sent, then onSuccess runs.
generateFullQuoteOnSuccess ==
  LET sent == quoteGenerator.generating[1]
      quote == generateFullQuoteLoop(rateCardItems, sent.selectedItems,
                                     [items |-> <<>>, total |-> 0])
      fullQuote == [header |-> sent.header, items |-> quote.items, total |-> quote.total]
      quoteId == IntToText(now)
  IN /\ quoteGenerator.generating # <<>>
     /\ Len(toasts) < MaxToasts
     /\ quoteHistory' =
          put(quoteHistory, quoteId,
              [id |-> quoteId, timestamp |-> now, header |-> sent.header,
               items |-> quote.items, total |-> quote.total])
     /\ Render([quoteGenerator EXCEPT !.generatedQuote = <<fullQuote>>,
                                      !.generating = <<>>],
               analysisTab, handleQuoteGenerated(mainApp, <<fullQuote>>))
     /\ toasts' = Append(toasts, toast("success", "Quote generated successfully!"))
     /\ call' = [op |-> "generateFullQuote", args |-> <<sent.header, sent.selectedItems>>,
                 result |-> fullQuote]
     /\ UNCHANGED <<rateCardItems, accountManagers, uploadedFiles, now, request, others>>

\* The pending generateFullQuote fails ('Actor not available'): onError runs.
generateFullQuoteOnError ==
  /\ quoteGenerator.generating # <<>>
  /\ Len(toasts) < MaxToasts
  /\ quoteGenerator' = [quoteGenerator EXCEPT !.generating = <<>>]
  /\ toasts' = Append(toasts,
                      toast("error", "Failed to generate quote: Actor not available"))
  /\ call' = [op |-> "generateFullQuote",
              args |-> <<quoteGenerator.generating[1].header,
                         quoteGenerator.generating[1].selectedItems>>,
              result |-> <<"Actor not available">>]
  /\ UNCHANGED <<stores, now, request, others, analysisTab, mainApp>>

\* handleNewQuote, from the New Quote button of the summary that replaces
\* the form once a quote is generated
handleNewQuote ==
  /\ mainApp.activeTab = "quote"
  /\ quoteGenerator.generatedQuote # <<>>
  /\ Render([quoteGenerator EXCEPT
               !.generatedQuote = <<>>, !.selectedItems = <<>>, !.clientName = <<>>,
               !.projectDuration = <<>>, !.accountManager = <<>>, !.projectName = <<>>,
               !.filterDescription = <<>>, !.analysisData = <<>>],
            analysisTab, handleQuoteGenerated(mainApp, <<>>))
  /\ call' = [op |-> "handleNewQuote", args |-> <<>>, result |-> <<>>]
  /\ UNCHANGED <<stores, now, request, others, toasts>>

----------------------------------------------------------------------------

(* AnalysisTab: the editable standard costs and their update. The mutation *)
(* observer of useMutation follows the last mutate call only: the callbacks *)
(* given to an earlier call that is still in flight are never run.          *)

\* The analysis tab shows AnalysisTab.
AnalysisShown == mainApp.activeTab = "analysis" /\ mainApp.currentQuote # <<>>

\* isPending of useUpdateStandardCost: the last mutate call is in flight.
isUpdating ==
  /\ analysisTab.requests # <<>>
  /\ analysisTab.requests[Len(analysisTab.requests)].status = "pending"

\* What is typed into a standard cost input.
CostTexts == {<<"9", "0">>, <<"t">>}

\* parseFloat(e.target.value) || 0
parseFloatOr0(chars) ==
  LET n == parseFloat(chars) IN IF n.nan THEN 0 ELSE n.value

\* handleStandardCostChange(index, parseFloat(e.target.value) || 0); the item
\* is changed in place, so an array that shares it sees the new cost.
handleStandardCostChange(index, text) ==
  LET cost == max(0, parseFloatOr0(text))
  IN /\ AnalysisShown
     /\ index \in 1..Len(analysisTab.editableItems)
     /\ analysisTab' =
          [analysisTab EXCEPT
             !.editableItems[index].standardCost = cost,
             !.closure = IF @ # <<>> /\ @[1].shared
                         THEN <<[@[1] EXCEPT !.editableItems[index].standardCost = cost]>>
                         ELSE @]
     /\ call' = [op |-> "handleStandardCostChange", args |-> <<index, text>>,
                 result |-> <<>>]
     /\ UNCHANGED <<stores, now, request, others, toasts, quoteGenerator, mainApp>>

\* handleResetCosts
handleResetCosts ==
  /\ AnalysisShown
  /\ Len(toasts) < MaxToasts
  /\ analysisTab' =
       [analysisTab EXCEPT
          !.editableItems = EditableItems(mainApp.currentQuote[1].items),
          !.closure = IF @ # <<>> THEN <<[@[1] EXCEPT !.shared = FALSE]>> ELSE @]
  /\ toasts' = Append(toasts, toast("success", "Standard costs reset to original values"))
  /\ call' = [op |-> "handleResetCosts", args |-> <<>>, result |-> <<>>]
  /\ UNCHANGED <<stores, now, request, others, quoteGenerator, mainApp>>

\* The updates of handleUpdateCosts: one per edited item whose standard cost
\* is not the one of the quote's item at the same index.
RECURSIVE Updates(_, _)
Updates(editableItems, originalItems) ==
  IF editableItems = <<>> THEN <<>>
  ELSE (IF Head(editableItems).standardCost # Head(originalItems).standardCost
        THEN <<[itemId |-> Head(editableItems).id,
                newStandardCost |-> Head(editableItems).standardCost]>>
        ELSE <<>>) \o Updates(Tail(editableItems), Tail(originalItems))

\* analysisData.totalRevenue
RECURSIVE totalRevenue(_)
totalRevenue(editableItems) ==
  IF editableItems = <<>> THEN 0
  ELSE LET item == Head(editableItems)
       IN item.standardCost * item.quantity * item.duration
            + totalRevenue(Tail(editableItems))

\* handleUpdateCosts; the button is disabled while isUpdating. With more
\* edited items than the quote has, originalItem is undefined and the
\* handler throws.
handleUpdateCosts ==
  LET quote == mainApp.currentQuote[1]
      updates == Updates(analysisTab.editableItems, quote.items)
  IN /\ AnalysisShown
     /\ ~isUpdating
     /\ IF Len(analysisTab.editableItems) > Len(quote.items)
        THEN /\ call' = [op |-> "handleUpdateCosts", args |-> <<>>,
                         result |-> <<"TypeError">>]
             /\ UNCHANGED <<analysisTab, mainApp, toasts>>
        ELSE IF updates = <<>>
        THEN /\ Len(toasts) < MaxToasts
             /\ toasts' = Append(toasts, toast("info", "No changes to update"))
             /\ call' = [op |-> "handleUpdateCosts", args |-> <<>>, result |-> <<>>]
             /\ UNCHANGED <<analysisTab, mainApp>>
        ELSE /\ InFlight + Len(updates) <= MaxInFlight
             /\ analysisTab' =
                  [analysisTab EXCEPT
                     !.requests =
                       [i \in 1..Len(updates) |->
                          [itemId |-> updates[i].itemId,
                           newStandardCost |-> updates[i].newStandardCost,
                           status |-> "pending"]],
                     !.completed = 0,
                     !.updated = 0,
                     !.closure =
                       <<[quote |-> quote, editableItems |-> analysisTab.editableItems,
                          totalRevenue |-> totalRevenue(analysisTab.editableItems),
                          shared |-> TRUE]>>]
             /\ mainApp' = [mainApp EXCEPT
                              !.unobserved = @ \o PendingUpdates(analysisTab.requests)]
             /\ call' = [op |-> "handleUpdateCosts", args |-> <<>>, result |-> <<>>]
             /\ UNCHANGED toasts
     /\ UNCHANGED <<stores, now, request, others, quoteGenerator>>

\* The quote the last onSuccess hands to onQuoteUpdated.
updatedQuote(closure) ==
  [header |-> closure.quote.header,
   items |->
     [i \in 1..Len(closure.editableItems) |->
        LET item == closure.editableItems[i]
            qi == find(closure.quote.items, item.id)
            total == item.standardCost * item.quantity * item.duration
        IN IF qi = <<>> THEN [standardCost |-> item.standardCost, total |-> total]
           ELSE [qi[1] EXCEPT !.standardCost = item.standardCost, !.total = total]],
   total |-> closure.totalRevenue]

\* Request k of the last update succeeds: the actor has executed
\* updateStandardCost; onSuccess runs when k is the call the observer follows.
updateStandardCostOnSuccess(k) ==
  LET sent == analysisTab.requests[k]
      observed == k = Len(analysisTab.requests)
      done == observed /\ analysisTab.completed + 1 = Len(analysisTab.requests)
      at == [analysisTab EXCEPT
               !.requests[k].status = "success",
               !.completed = IF observed THEN @ + 1 ELSE @,
               !.updated = IF done THEN @ + 1 ELSE @]
  IN /\ k \in 1..Len(analysisTab.requests)
     /\ sent.status = "pending"
     /\ done => Len(toasts) < MaxToasts
     /\ rateCardItems' =
          IF sent.itemId \in DOMAIN rateCardItems
          THEN put(rateCardItems, sent.itemId,
                   [rateCardItems[sent.itemId] EXCEPT !.standardCost = sent.newStandardCost])
          ELSE rateCardItems
     /\ IF done
        THEN /\ Render(quoteGenerator, at,
                       [mainApp EXCEPT
                          !.currentQuote = <<updatedQuote(analysisTab.closure[1])>>])
             /\ toasts' =
                  Append(toasts,
                         toast("success",
                               IF Len(analysisTab.requests) > 1
                               THEN "Updated standard costs successfully!"
                               ELSE "Updated 1 standard cost successfully!"))
        ELSE /\ analysisTab' = at
             /\ UNCHANGED <<quoteGenerator, mainApp, toasts>>
     /\ call' = [op |-> "updateStandardCost",
                 args |-> <<sent.itemId, sent.newStandardCost>>, result |-> <<>>]
     /\ UNCHANGED <<quoteHistory, accountManagers, uploadedFiles, now, request, others>>

\* Request k of the last update fails ('Actor not available'); onError runs
\* when k is the call the observer follows.
updateStandardCostOnError(k) ==
  LET sent == analysisTab.requests[k]
      observed == k = Len(analysisTab.requests)
  IN /\ k \in 1..Len(analysisTab.requests)
     /\ sent.status = "pending"
     /\ observed => Len(toasts) < MaxToasts
     /\ analysisTab' = [analysisTab EXCEPT !.requests[k].status = "error"]
     /\ toasts' =
          IF observed
          THEN Append(toasts, toast("error", "Failed to update cost: Actor not available"))
          ELSE toasts
     /\ call' = [op |-> "updateStandardCost",
                 args |-> <<sent.itemId, sent.newStandardCost>>,
                 result |-> <<"Actor not available">>]
     /\ UNCHANGED <<stores, now, request, others, quoteGenerator, mainApp>>

----------------------------------------------------------------------------

(* The clock: Time.now() is constant within a message and never decreases  *)
(* from one message to the next; messages of one round read the same time. *)

Tick ==
  /\ now < MaxTime
  /\ now' = now + 1
  /\ UNCHANGED <<stores, request, call, rest>>

----------------------------------------------------------------------------
(* The actor's rate card, quote, manager and file methods, called with any *)
(* input, in any order                                                     *)

InitRest ==
  /\ InitPages
  /\ userProfiles = empty
  /\ accessControlState = initState
  /\ running = NoRunning
  /\ window = LoadedWindow
  /\ rateCardManager = NoUpload
  /\ quoteSummary = NoQuote
  /\ toasts = <<>>
  /\ downloads = <<>>

Init ==
  /\ InitRest
  /\ rateCardItems = empty
  /\ quoteHistory = empty
  /\ accountManagers = empty
  /\ uploadedFiles = empty
  /\ now = TimeOrigin
  /\ request = NoRequest
  /\ call = NoCall

Next ==
  \/ \E newItems \in SeqsUpTo(ActorItemInputs, MaxItems) : updateRateCard(newItems)
  \/ getRateCard
  \/ \E id \in {<<"A">>, <<"m">>} : getRateCardItem(id)
  \/ getAllRateCardItems
  \/ \E item \in ActorItemInputs : addRateCardItem(item)
  \/ \E id \in {<<"A">>, <<"m">>} : deleteRateCardItem(id)
  \/ \E item \in ActorItemInputs : updateRateCardItem(item)
  \/ \E id \in {<<"A">>, <<"m">>}, cost \in CostInputs : updateStandardCost(id, cost)
  \/ \E selectedItems \in ActorSelectionInputs : generateQuote(selectedItems)
  \/ \E header \in Headers, selectedItems \in ActorSelectionInputs :
       generateFullQuote(header, selectedItems)
  \/ \E selectedItems \in ActorSelectionInputs : generateAnalysis(selectedItems)
  \/ getQuoteHistory
  \/ \E t \in TimeOrigin..MaxTime : getQuoteHistoryItem(IntToText(t))
  \/ \E newManagers \in SeqsUpTo(ActorManagerInputs, MaxItems) :
       updateAccountManagers(newManagers)
  \/ getAccountManagers
  \/ \E manager \in ActorManagerInputs : addAccountManager(manager)
  \/ \E id \in {<<"m", "1">>} : deleteAccountManager(id)
  \/ \E manager \in ActorManagerInputs : updateAccountManager(manager)
  \/ \E file \in UploadedFileInputs : trackUploadedFile(file)
  \/ getUploadedFiles
  \/ Tick

Spec == Init /\ [][Next]_vars

----------------------------------------------------------------------------
(* The calculators as functions: any rate card, any prepared request *)

RateCards ==
  {card \in UNION {[keys -> CalcItems] : keys \in SUBSET Ids} :
     \A k \in DOMAIN card : card[k].id = k}

InitCalc ==
  /\ InitRest
  /\ rateCardItems \in RateCards
  /\ quoteHistory = empty
  /\ accountManagers = empty
  /\ uploadedFiles = empty
  /\ now = TimeOrigin
  /\ request \in [header : {NoRequest.header}, selectedItems : SeqsUpTo(Selections, MaxSel)]
  /\ call = NoCall

NextCalc ==
  \/ generateQuote(request.selectedItems)
  \/ generateFullQuote(request.header, request.selectedItems)
  \/ generateAnalysis(request.selectedItems)

SpecCalc == InitCalc /\ [][NextCalc]_vars

----------------------------------------------------------------------------
(* The key-value stores alone, with more ids and values *)

NextStores ==
  \/ \E newItems \in SeqsUpTo(RateCardItemInputs, MaxItems) : updateRateCard(newItems)
  \/ getRateCard
  \/ \E id \in SelIds : getRateCardItem(id)
  \/ getAllRateCardItems
  \/ \E item \in RateCardItemInputs : addRateCardItem(item)
  \/ \E id \in SelIds : deleteRateCardItem(id)
  \/ \E item \in RateCardItemInputs : updateRateCardItem(item)
  \/ \E id \in SelIds, cost \in CostInputs : updateStandardCost(id, cost)
  \/ \E newManagers \in SeqsUpTo(AccountManagerInputs, MaxItems) :
       updateAccountManagers(newManagers)
  \/ getAccountManagers
  \/ \E manager \in AccountManagerInputs : addAccountManager(manager)
  \/ \E id \in ManagerIds : deleteAccountManager(id)
  \/ \E manager \in AccountManagerInputs : updateAccountManager(manager)

SpecStores == Init /\ [][NextStores]_vars

----------------------------------------------------------------------------
(* The bulk replacements statement by statement.  Neither body contains an  *)
(* await, so the actor starts no other message before the running one ends. *)

Idle_Always == TRUE

Idle == running.op = "none"

Committed ==
  IF running.op = "none"
  THEN [rateCardItems |-> rateCardItems, accountManagers |-> accountManagers]
  ELSE running.before

\* rateCardItems := textMap.empty()
updateRateCardBegin(newItems) ==
  /\ Idle
  /\ running' = [op |-> "updateRateCard", todo |-> newItems, args |-> <<newItems>>,
                 before |-> Committed]
  /\ rateCardItems' = empty
  /\ UNCHANGED <<quoteHistory, accountManagers, uploadedFiles, now, request, call,
                 auth, frontend>>

\* one iteration of the for loop
updateRateCardStep ==
  /\ running.op = "updateRateCard"
  /\ running.todo # <<>>
  /\ rateCardItems' = put(rateCardItems, Head(running.todo).id, Head(running.todo))
  /\ running' = [running EXCEPT !.todo = Tail(running.todo)]
  /\ UNCHANGED <<quoteHistory, accountManagers, uploadedFiles, now, request, call,
                 auth, frontend>>

\* the method returns
updateRateCardEnd ==
  /\ running.op = "updateRateCard"
  /\ running.todo = <<>>
  /\ running' = NoRunning
  /\ call' = [op |-> "updateRateCard", args |-> running.args, result |-> <<>>]
  /\ UNCHANGED <<stores, now, request, auth, frontend>>

\* accountManagers := textMap.empty()
updateAccountManagersBegin(newManagers) ==
  /\ Idle
  /\ running' = [op |-> "updateAccountManagers", todo |-> newManagers,
                 args |-> <<newManagers>>, before |-> Committed]
  /\ accountManagers' = empty
  /\ UNCHANGED <<rateCardItems, quoteHistory, uploadedFiles, now, request, call,
                 auth, frontend>>

updateAccountManagersStep ==
  /\ running.op = "updateAccountManagers"
  /\ running.todo # <<>>
  /\ accountManagers' = put(accountManagers, Head(running.todo).id, Head(running.todo))
  /\ running' = [running EXCEPT !.todo = Tail(running.todo)]
  /\ UNCHANGED <<rateCardItems, quoteHistory, uploadedFiles, now, request, call,
                 auth, frontend>>

updateAccountManagersEnd ==
  /\ running.op = "updateAccountManagers"
  /\ running.todo = <<>>
  /\ running' = NoRunning
  /\ call' = [op |-> "updateAccountManagers", args |-> running.args, result |-> <<>>]
  /\ UNCHANGED <<stores, now, request, auth, frontend>>

NextAtomic ==
  \/ \E newItems \in SeqsUpTo(RateCardItemInputs, MaxItems) : updateRateCardBegin(newItems)
  \/ updateRateCardStep
  \/ updateRateCardEnd
  \/ \E newManagers \in SeqsUpTo(ActorManagerInputs, MaxItems) :
       updateAccountManagersBegin(newManagers)
  \/ updateAccountManagersStep
  \/ updateAccountManagersEnd
  \/ Idle /\ getRateCard
  \/ Idle /\ getAllRateCardItems
  \/ \E id \in SelIds : Idle /\ getRateCardItem(id)
  \/ Idle /\ getAccountManagers

SpecAtomic == Init /\ [][NextAtomic]_vars

----------------------------------------------------------------------------
(* The authentication and profile methods, called by any principal *)

NextProfiles ==
  \/ \E caller \in Principals : initializeAccessControl(caller)
  \/ \E caller \in Principals : getCallerUserRole(caller)
  \/ \E caller \in Principals, user \in Principals \ {"anonymous"}, role \in UserRole :
       assignCallerUserRole(caller, user, role)
  \/ \E caller \in Principals : isCallerAdmin(caller)
  \/ \E caller \in Principals : getCallerUserProfile(caller)
  \/ \E caller \in Principals, id \in {<<"p", "1">>, <<"p", "2">>} : getUserProfile(caller, id)
  \/ \E caller \in Principals, profile \in UserProfileInputs :
       saveCallerUserProfile(caller, profile)

SpecProfiles == Init /\ [][NextProfiles]_vars

----------------------------------------------------------------------------
(* The Quote Summary page with a generated quote, and its export buttons *)

SummaryCard == PutAll(empty, <<Item(<<"A">>, 80, 100), Item(<<"B">>, 0, 1500)>>)

\* What generateFullQuote returns for the selections over SummaryCard.
SummaryQuotes ==
  {LET quote == generateFullQuoteLoop(SummaryCard, selectedItems,
                                      [items |-> <<>>, total |-> 0])
   IN [header |-> NoRequest.header, items |-> quote.items, total |-> quote.total] :
     selectedItems \in SeqsUpTo(Ids \X Quantities \X Durations, MaxSel)}

InitExport ==
  /\ rateCardItems = SummaryCard
  /\ quoteHistory = empty
  /\ accountManagers = empty
  /\ uploadedFiles = empty
  /\ now = TimeOrigin
  /\ request = NoRequest
  /\ call = NoCall
  /\ userProfiles = empty
  /\ accessControlState = initState
  /\ running = NoRunning
  /\ window \in Windows
  /\ rateCardManager = NoUpload
  /\ quoteSummary \in [quote : {<<q>> : q \in SummaryQuotes}]
  /\ toasts = <<>>
  /\ downloads = <<>>
  /\ InitPages

NextExport ==
  \/ handleExportPDF
  \/ handleExportExcel

SpecExport == InitExport /\ [][NextExport]_vars

----------------------------------------------------------------------------
(* The Rate Card Manager page: the user picks files, confirms or cancels *)

InitUpload ==
  /\ rateCardItems = empty
  /\ quoteHistory = empty
  /\ accountManagers = empty
  /\ uploadedFiles = empty
  /\ now = TimeOrigin
  /\ request \in [file : Files]
  /\ call = NoCall
  /\ userProfiles = empty
  /\ accessControlState = initState
  /\ running = NoRunning
  /\ window \in [jspdf : {"loaded"}, XLSX : BOOLEAN]
  /\ rateCardManager = NoUpload
  /\ quoteSummary = NoQuote
  /\ toasts = <<>>
  /\ downloads = <<>>
  /\ InitPages

NextUpload ==
  \/ handleFileChange(request.file)
  \/ handleConfirmUpdate
  \/ updateRateCardOnSuccess
  \/ updateRateCardOnError
  \/ handleCancelPreview

SpecUpload == InitUpload /\ [][NextUpload]_vars

----------------------------------------------------------------------------
(* Properties of the calculators (checked under SpecCalc) *)

Calculators == {"generateQuote", "generateFullQuote", "generateAnalysis"}

\* The selection list of the last call (the last argument of each calculator).
CallSelection == call.args[Len(call.args)]

InCard(selection) == selection[1] \in DOMAIN rateCardItems

Known(selectedItems) == SelectSeq(selectedItems, InCard)

RECURSIVE SumSeq(_)
SumSeq(numbers) == IF numbers = <<>> THEN 0 ELSE Head(numbers) + SumSeq(Tail(numbers))

CarriesCatalogFields(x, R) ==
  /\ x.id = R.id
  /\ x.itemRefNo = R.itemRefNo
  /\ x.category = R.category
  /\ x.subcategory = R.subcategory
  /\ x.detailedDescription = R.detailedDescription
  /\ x.opsBriskCost = R.opsBriskCost
  /\ x.standardCost = R.standardCost

\* C1: every line item emitted by generateQuote, generateFullQuote and
\* generateAnalysis carries the catalog fields of the rate-card item R with its
\* id and has total = R.standardCost * quantity * duration, and every selection
\* (R.id, q, d) of an item in the rate card has such a line item with quantity q
\* and duration d.
C1_LineTotal ==
  call.op \in Calculators =>
    /\ \A i \in 1..Len(call.result.items) :
         LET x == call.result.items[i] IN
           /\ x.id \in DOMAIN rateCardItems
           /\ CarriesCatalogFields(x, rateCardItems[x.id])
           /\ x.total = rateCardItems[x.id].standardCost * x.quantity * x.duration
    /\ \A j \in 1..Len(CallSelection) :
         InCard(CallSelection[j]) =>
           \E i \in 1..Len(call.result.items) :
             /\ call.result.items[i].id = CallSelection[j][1]
             /\ call.result.items[i].quantity = CallSelection[j][2]
             /\ call.result.items[i].duration = CallSelection[j][3]

C1_Witness ==
  /\ call.op = "generateFullQuote"
  /\ \E j \in 1..Len(CallSelection) :
       /\ InCard(CallSelection[j])
       /\ CallSelection[j][2] = 2
       /\ CallSelection[j][3] = 3
       /\ rateCardItems[CallSelection[j][1]].standardCost = 100
  /\ \E i \in 1..Len(call.result.items) : call.result.items[i].total = 600

UnknownIn(selectedItems) ==
  {j \in 1..Len(selectedItems) : ~InCard(selectedItems[j])}

\* The grand total of a result: total of a quote, totalProfit of an analysis.
GrandTotal == IF call.op = "generateAnalysis" THEN call.result.totalProfit
              ELSE call.result.total

\* C2: a selection whose id is absent from the rate card yields no line item
\* and adds nothing to the totals: the result has one item per selection of a
\* known id, none with an unknown id, and its totals are those of the known
\* selections alone; a list made only of unknown ids yields items = [] and
\* total = 0.
C2_UnknownSkipped ==
  call.op \in Calculators =>
    LET known == Known(CallSelection) IN
      /\ Len(call.result.items) = Len(CallSelection) - Cardinality(UnknownIn(CallSelection))
      /\ \A i \in 1..Len(call.result.items) :
           call.result.items[i].id \in DOMAIN rateCardItems
      /\ GrandTotal =
           SumSeq([i \in 1..Len(known) |->
                     rateCardItems[known[i][1]].standardCost * known[i][2] * known[i][3]])
      /\ call.op = "generateAnalysis" =>
           call.result.totalMargin =
             SumSeq([i \in 1..Len(known) |->
                       rateCardItems[known[i][1]].standardCost
                         - rateCardItems[known[i][1]].opsBriskCost])
      /\ known = <<>> => call.result.items = <<>> /\ GrandTotal = 0

C2_Witness ==
  /\ call.op = "generateQuote"
  /\ Len(CallSelection) = 2
  /\ ~InCard(CallSelection[1])
  /\ InCard(CallSelection[2])
  /\ call.result.total > 0

C2_WitnessOnlyUnknown ==
  /\ call.op = "generateQuote"
  /\ CallSelection = << <<(<<"m">>), 2, 1>> >>
  /\ rateCardItems # empty
  /\ call.result = [items |-> <<>>, total |-> 0]

ItemTotals(items) == [i \in 1..Len(items) |-> items[i].total]

\* C3: the grand total returned by generateQuote and generateFullQuote, and the
\* total stored in every history item, equals the sum of the totals of the line
\* items of that same result.
C3_GrandTotal ==
  /\ call.op \in {"generateQuote", "generateFullQuote"} =>
       call.result.total = SumSeq(ItemTotals(call.result.items))
  /\ \A k \in DOMAIN quoteHistory :
       quoteHistory[k].total = SumSeq(ItemTotals(quoteHistory[k].items))

C3_Witness ==
  /\ call.op = "generateFullQuote"
  /\ Len(call.result.items) = 2
  /\ call.result.items[1].total > 0
  /\ call.result.items[2].total > 0
  /\ call.result.items[1].total # call.result.items[2].total
  /\ \E k \in DOMAIN quoteHistory : quoteHistory[k].total = call.result.total

\* The (id, quantity, duration) of each line item, in order.
Triples(items) ==
  [i \in 1..Len(items) |-> <<items[i].id, items[i].quantity, items[i].duration>>]

\* C4: the line items are exactly the selections whose id is in the rate card,
\* one per such selection (repeated ids included), in the order of the input.
C4_OrderKept ==
  call.op \in Calculators => Triples(call.result.items) = Known(CallSelection)

C4_Witness ==
  /\ call.op = "generateQuote"
  /\ Len(CallSelection) = 2
  /\ CallSelection[1][1] = <<"B">>
  /\ CallSelection[2][1] = <<"A">>
  /\ Len(call.result.items) = 2

C4_WitnessRepeated ==
  /\ call.op = "generateAnalysis"
  /\ Len(CallSelection) = 2
  /\ CallSelection[1][1] = CallSelection[2][1]
  /\ CallSelection[1] # CallSelection[2]
  /\ Len(call.result.items) = 2

\* C5: every analysis item has margin = standardCost - opsBriskCost, and
\* marginPercentage = margin / standardCost * 100 when standardCost > 0 and
\* exactly 0 when standardCost <= 0, whatever the ops cost is.
C5_Margin ==
  call.op = "generateAnalysis" =>
    \A i \in 1..Len(call.result.items) :
      LET x == call.result.items[i] IN
        /\ x.margin = x.standardCost - x.opsBriskCost
        /\ x.standardCost > 0 =>
             /\ x.marginPercentage.den > 0
             /\ x.marginPercentage.num * x.standardCost
                  = x.margin * 100 * x.marginPercentage.den
        /\ x.standardCost <= 0 => x.marginPercentage = FloatZero

C5_Witness ==
  /\ call.op = "generateAnalysis"
  /\ \E i, j \in 1..Len(call.result.items) :
       /\ call.result.items[i].standardCost < 0
       /\ call.result.items[i].opsBriskCost > 0
       /\ call.result.items[j].standardCost > 0
       /\ call.result.items[j].marginPercentage # FloatZero

\* C6: generateAnalysis returns totalMargin = the sum over the emitted items of
\* the unit margin (not scaled by quantity or duration) and totalProfit = the
\* sum over the emitted items of the line total; item A with standardCost 100
\* and ops cost 80 selected as (A, 2, 3) gives total 600, margin 20,
\* marginPercentage 20, totalMargin 20, totalProfit 600.
C6_Summary ==
  call.op = "generateAnalysis" =>
    LET items == call.result.items IN
      /\ call.result.totalMargin =
           SumSeq([i \in 1..Len(items) |-> items[i].standardCost - items[i].opsBriskCost])
      /\ call.result.totalProfit =
           SumSeq([i \in 1..Len(items) |->
                     items[i].standardCost * items[i].quantity * items[i].duration])
      /\ ( /\ <<"A">> \in DOMAIN rateCardItems
           /\ rateCardItems[<<"A">>].standardCost = 100
           /\ rateCardItems[<<"A">>].opsBriskCost = 80
           /\ CallSelection = << <<(<<"A">>), 2, 3>> >> )
         => /\ Len(items) = 1
            /\ items[1].total = 600
            /\ items[1].margin = 20
            /\ items[1].marginPercentage = [num |-> 20, den |-> 1]
            /\ call.result.totalMargin = 20
            /\ call.result.totalProfit = 600

C6_Witness ==
  /\ call.op = "generateAnalysis"
  /\ <<"A">> \in DOMAIN rateCardItems
  /\ rateCardItems[<<"A">>].standardCost = 100
  /\ rateCardItems[<<"A">>].opsBriskCost = 80
  /\ CallSelection = << <<(<<"A">>), 2, 3>> >>
  /\ call.result.totalMargin = 20
  /\ call.result.totalProfit = 600

----------------------------------------------------------------------------
(* Properties of the quote history and of the frame of the calculators     *)
(* (checked under Spec)                                                    *)

\* C7: history items are immutable after creation: a history item stored
\* under an id stays under that id with the same content in every later state,
\* so every later getQuoteHistoryItem(id) returns it.
C7_HistoryImmutable ==
  [][\A k \in DOMAIN quoteHistory :
       k \in DOMAIN quoteHistory' /\ quoteHistory'[k] = quoteHistory[k]]_vars

\* C8: every generateFullQuote call writes its history item under an id that
\* is not yet in the history, so the history grows by exactly one entry.
C8_FreshId ==
  [][(\E header \in Headers, selectedItems \in ActorSelectionInputs :
        generateFullQuote(header, selectedItems))
     => /\ IntToText(now) \notin DOMAIN quoteHistory
        /\ Cardinality(DOMAIN quoteHistory') = Cardinality(DOMAIN quoteHistory) + 1]_vars

\* C9: generateQuote and generateAnalysis leave the rate card store, the quote
\* history, the account manager store and the uploaded-file registry unchanged.
C9_NoSideEffects ==
  [][call'.op \in {"generateQuote", "generateAnalysis"} => UNCHANGED stores]_vars

C9_Witness ==
  /\ call.op = "generateQuote"
  /\ call.result.items # <<>>
  /\ rateCardItems # empty
  /\ quoteHistory # empty
  /\ accountManagers # empty
  /\ uploadedFiles # empty

----------------------------------------------------------------------------
(* Properties of the stores (checked under SpecStores) *)

Range(list) == {list[i] : i \in 1..Len(list)}

DistinctIds(list) ==
  \A i, j \in 1..Len(list) : i # j => list[i].id # list[j].id

\* What a get-all returns after a bulk replace by `list`: being `listed`.
ExactlyTheItems(list, listed) ==
  /\ Range(listed) = Range(list)
  /\ Len(list) = 1 => listed = list

\* C10 (as claimed): after updateRateCard(L) getRateCard() returns exactly the
\* items of L, and after updateAccountManagers(L) getAccountManagers() returns
\* exactly the managers of L: nothing from before remains and every element of
\* L is present.
C10_BulkReplace ==
  /\ call.op = "updateRateCard" => ExactlyTheItems(call.args[1], vals(rateCardItems))
  /\ call.op = "updateAccountManagers" =>
       ExactlyTheItems(call.args[1], vals(accountManagers))

\* `listed` holds, in ascending id order, for each id of `list` the last
\* element of `list` with that id, and nothing else.
LastOfEachId(list, listed) ==
  /\ \A i \in 1..Len(listed) :
       \E j \in 1..Len(list) :
         /\ list[j] = listed[i]
         /\ \A later \in (j + 1)..Len(list) : list[later].id # listed[i].id
  /\ \A j \in 1..Len(list) : \E i \in 1..Len(listed) : listed[i].id = list[j].id
  /\ \A i \in 1..(Len(listed) - 1) : TextLess(listed[i].id, listed[i + 1].id)
  /\ DistinctIds(list) => ExactlyTheItems(list, listed) /\ Len(listed) = Len(list)
  /\ Len(list) = 1 => listed = list

\* C10 (amended): after updateRateCard(L) getRateCard() returns, for each id
\* occurring in L, the last item of L with that id and nothing else (nothing
\* from before remains); when the ids of L are pairwise distinct these are
\* exactly the items of L, and after updateRateCard([x]) it returns [x]. The
\* same holds of updateAccountManagers and getAccountManagers.
C10_BulkReplaceLast ==
  /\ call.op = "updateRateCard" => LastOfEachId(call.args[1], vals(rateCardItems))
  /\ call.op = "updateAccountManagers" =>
       LastOfEachId(call.args[1], vals(accountManagers))

C10_Witness ==
  /\ call.op = "updateRateCard"
  /\ Len(call.args[1]) = 2
  /\ call.args[1][1].id = <<"B">>
  /\ call.args[1][2].id = <<"A">>
  /\ Len(vals(rateCardItems)) = 2
  /\ accountManagers # empty

----------------------------------------------------------------------------
(* Further properties of the history and of the stores *)

\* C11: the history item written by a generateFullQuote call is a snapshot of
\* that call's result: it is stored under the text of the call's time and its
\* header, items and total are those of the FullQuote returned to the caller.
C11_Snapshot ==
  [][(call'.op = "generateFullQuote" /\ (call' # call \/ quoteHistory' # quoteHistory))
     => /\ IntToText(now) \in DOMAIN quoteHistory'
        /\ quoteHistory'[IntToText(now)].header = call'.result.header
        /\ quoteHistory'[IntToText(now)].items = call'.result.items
        /\ quoteHistory'[IntToText(now)].total = call'.result.total
        /\ call'.result.header = call'.args[1]]_vars

C11_Witness ==
  /\ call.op = "generateFullQuote"
  /\ call.result.header.clientName = "Zed"
  /\ call.result.total = 600
  /\ IntToText(now) \in DOMAIN quoteHistory
  /\ quoteHistory[IntToText(now)].total = 600
  /\ Cardinality(DOMAIN quoteHistory) = 2

OtherFieldsKept(old, new) ==
  /\ new.id = old.id
  /\ new.itemRefNo = old.itemRefNo
  /\ new.category = old.category
  /\ new.subcategory = old.subcategory
  /\ new.detailedDescription = old.detailedDescription
  /\ new.opsBriskCost = old.opsBriskCost

\* C12: updateStandardCost(itemId, newCost) on an id of the rate card sets that
\* item's standardCost to newCost and changes no other field and no other item;
\* on an id that is not in the rate card it leaves the store unchanged and
\* creates no item.
C12_StandardCostOnly ==
  [][(call'.op = "updateStandardCost" /\ call' # call)
     => LET itemId == call'.args[1]
            newCost == call'.args[2]
        IN /\ DOMAIN rateCardItems' = DOMAIN rateCardItems
           /\ \A k \in DOMAIN rateCardItems \ {itemId} :
                rateCardItems'[k] = rateCardItems[k]
           /\ itemId \in DOMAIN rateCardItems =>
                /\ rateCardItems'[itemId].standardCost = newCost
                /\ OtherFieldsKept(rateCardItems[itemId], rateCardItems'[itemId])]_vars

C12_Witness ==
  /\ call.op = "updateStandardCost"
  /\ call.args[1] = <<"A">>
  /\ call.args[2] = 90
  /\ DOMAIN rateCardItems = Ids
  /\ rateCardItems[<<"A">>].standardCost = 90
  /\ rateCardItems[<<"B">>].standardCost = 100

C12_WitnessAbsent ==
  /\ call.op = "updateStandardCost"
  /\ call.args[1] = <<"B">>
  /\ DOMAIN rateCardItems = {<<"A">>}

\* C13: rate-card items are unique by id: getRateCard never returns two items
\* with the same id, and getRateCardItem(k), when not null, returns an item
\* whose id is k.
C13_UniqueById ==
  /\ DistinctIds(vals(rateCardItems))
  /\ \A k \in SelIds : get(rateCardItems, k) # <<>> => get(rateCardItems, k)[1].id = k
  /\ call.op = "getRateCard" => DistinctIds(call.result.items)
  /\ (call.op = "getRateCardItem" /\ call.result # <<>>) =>
       call.result[1].id = call.args[1]

C13_Witness ==
  /\ call.op = "getRateCardItem"
  /\ call.args[1] = <<"B">>
  /\ call.result # <<>>
  /\ Len(vals(rateCardItems)) = 2

\* The effect of a single put of x, and of a single delete of id, on a store.
PutEffect(old, new, x) ==
  /\ get(new, x.id) = <<x>>
  /\ DOMAIN new = DOMAIN old \cup {x.id}
  /\ \A k \in DOMAIN old \ {x.id} : new[k] = old[k]

DeleteEffect(old, new, id) ==
  /\ get(new, id) = <<>>
  /\ DOMAIN new = DOMAIN old \ {id}
  /\ \A k \in DOMAIN new : new[k] = old[k]

\* C14: after addRateCardItem(x) or updateRateCardItem(x), getRateCardItem(x.id)
\* returns x, replacing any earlier item with that id; after
\* deleteRateCardItem(id), getRateCardItem(id) returns null; items under other
\* ids are unchanged. The same holds for add/update/deleteAccountManager.
C14_LastWriteWins ==
  [][call' # call =>
       /\ call'.op \in {"addRateCardItem", "updateRateCardItem"} =>
            PutEffect(rateCardItems, rateCardItems', call'.args[1])
       /\ call'.op = "deleteRateCardItem" =>
            DeleteEffect(rateCardItems, rateCardItems', call'.args[1])
       /\ call'.op \in {"addAccountManager", "updateAccountManager"} =>
            PutEffect(accountManagers, accountManagers', call'.args[1])
       /\ call'.op = "deleteAccountManager" =>
            DeleteEffect(accountManagers, accountManagers', call'.args[1])]_vars

C14_Witness ==
  /\ call.op = "addRateCardItem"
  /\ call.args[1] = Item(<<"A">>, 80, 100)
  /\ get(rateCardItems, <<"A">>) = <<call.args[1]>>
  /\ <<"B">> \in DOMAIN rateCardItems
  /\ accountManagers # empty

\* C20: no operation other than generateFullQuote changes the quote history
\* (the rate card operations leave every stored history item unchanged), and
\* the set of history ids never loses an element.
C20_OnlyFullQuoteWrites ==
  [][/\ call'.op # "generateFullQuote" => quoteHistory' = quoteHistory
     /\ DOMAIN quoteHistory \subseteq DOMAIN quoteHistory']_vars

C20_Witness ==
  /\ call.op = "updateStandardCost"
  /\ call.args = << <<"A">>, 90 >>
  /\ <<"A">> \in DOMAIN rateCardItems
  /\ \E k \in DOMAIN quoteHistory :
       /\ quoteHistory[k].items # <<>>
       /\ quoteHistory[k].items[1].standardCost = 100
       /\ quoteHistory[k].total = 600

----------------------------------------------------------------------------
(* Properties of the profile methods (checked under SpecProfiles) *)

ProfileMethods == {"saveCallerUserProfile", "getCallerUserProfile"}

\* C17: saveCallerUserProfile and getCallerUserProfile, called by a caller
\* that lacks the #user permission, fail with an error (the message traps),
\* return no profile, and leave userProfiles as it was.
C17_Unauthorized ==
  [][(/\ call' # call \/ userProfiles' # userProfiles
      /\ call'.op \in ProfileMethods
      /\ ~hasPermission(accessControlState, call'.caller, "user"))
     => /\ call'.trap # ""
        /\ call'.result = <<>>
        /\ userProfiles' = userProfiles]_vars

\* A principal without the permission was refused while another principal's
\* profile was on file.
C17_Witness ==
  /\ call.op = "saveCallerUserProfile"
  /\ call.trap # ""
  /\ ~hasPermission(accessControlState, call.caller, "user")
  /\ call.caller # "anonymous"
  /\ userProfiles # empty
  /\ PrincipalToText(call.caller) \notin DOMAIN userProfiles

----------------------------------------------------------------------------
(* Properties of the bulk replacements as messages (checked under SpecAtomic) *)

Readers == {"getRateCard", "getAllRateCardItems", "getRateCardItem", "getAccountManagers"}

\* What a reader returns when the stores are as in committed.
ReadOf(c, committed) ==
  CASE c.op = "getRateCard" -> [items |-> vals(committed.rateCardItems)]
    [] c.op = "getAllRateCardItems" -> vals(committed.rateCardItems)
    [] c.op = "getRateCardItem" -> get(committed.rateCardItems, c.args[1])
    [] c.op = "getAccountManagers" -> [managers |-> vals(committed.accountManagers)]

\* C18: a bulk replacement runs to completion: what a reader returns is the
\* content a completed message left, never the partly filled map of a running
\* updateRateCard or updateAccountManagers; and when the replacement returns,
\* its store holds exactly its argument, as in the one-step methods.
C18_RunsToCompletion ==
  [][/\ (call' # call /\ call'.op \in Readers) => call'.result = ReadOf(call', Committed)
     /\ (running.op = "updateRateCard" /\ running'.op = "none")
          => /\ rateCardItems' = PutAll(empty, running.args[1])
             /\ accountManagers' = running.before.accountManagers
     /\ (running.op = "updateAccountManagers" /\ running'.op = "none")
          => /\ accountManagers' = PutAll(empty, running.args[1])
             /\ rateCardItems' = running.before.rateCardItems]_vars

\* A reader ran right after a replacement of a non-empty rate card by two
\* items had completed, and returned both.
C18_Witness ==
  /\ running.op = "none"
  /\ call.op = "getRateCard"
  /\ Len(call.result.items) = 2
  /\ accountManagers # empty

\* A replacement is in the middle of its loop: the store holds one of the two
\* new items and neither the old content nor the new.
C18_WitnessRunning ==
  /\ running.op = "updateRateCard"
  /\ Len(running.todo) = 1
  /\ DOMAIN rateCardItems # DOMAIN running.before.rateCardItems
  /\ rateCardItems # PutAll(empty, running.args[1])

----------------------------------------------------------------------------
(* Properties of the exports (checked under SpecExport) *)

\* The message of the Error the exporter of a handler throws for the part of
\* its library that is missing ("" when nothing is missing).
MissingLibrary(handler) ==
  IF handler = "handleExportPDF"
  THEN CASE window.jspdf = "undefined" ->
              "PDF export library is not loaded. Please refresh the page and try again."
         [] window.jspdf = "noConstructor" ->
              "PDF table plugin is not loaded. Please refresh the page and try again."
         [] window.jspdf = "noAutoTable" ->
              "PDF table functionality is not available. Please refresh the page and try again."
         [] OTHER -> ""
  ELSE IF window.XLSX THEN "" ELSE "Excel export library not loaded. Please refresh the page."

\* C16: when the library of an export is unavailable (window.jspdf, its jsPDF
\* constructor or doc.autoTable for PDF, window.XLSX for Excel), the handler
\* saves no file and shows exactly one toast, the error toast carrying the
\* exporter's message, and no success toast.
C16_LibraryUnavailable ==
  [][(toasts' # toasts /\ MissingLibrary(call'.op) # "")
     => /\ downloads' = downloads
        /\ toasts' = Append(toasts, toast("error", MissingLibrary(call'.op)))]_vars

\* A PDF export was refused for the missing autoTable after an Excel export
\* had succeeded in the same page.
C16_Witness ==
  /\ call.op = "handleExportPDF"
  /\ window.jspdf = "noAutoTable"
  /\ Len(toasts) = 2
  /\ toasts[1].kind = "success"
  /\ toasts[2].kind = "error"
  /\ Len(downloads) = 1

\* The columns of the Quote Summary table on screen: heading and the field of
\* the item each cell shows.
SummaryColumns ==
  <<[head |-> "Item Ref No", field |-> "itemRefNo"],
    [head |-> "Category", field |-> "category"],
    [head |-> "Subcategory", field |-> "subcategory"],
    [head |-> "Description", field |-> "detailedDescription"],
    [head |-> "Standard Cost", field |-> "standardCost"],
    [head |-> "Quantity", field |-> "quantity"],
    [head |-> "Duration", field |-> "duration"],
    [head |-> "Total", field |-> "total"]>>

\* A field of an item as text: amounts as currency, counts in decimal.
CellText(item, field) ==
  IF field \in {"standardCost", "total"} THEN formatCurrency(item[field])
  ELSE IF field \in {"quantity", "duration"} THEN IntToText(item[field])
  ELSE item[field]

\* C19: every quote PDF saved has the headings of the on-screen table in the
\* same order, one body row per item of the quote in the quote's order, in
\* each row the item's fields in the order of the on-screen columns, and the
\* quote's total in the Grand Total block.
C19_PdfTable ==
  \A d \in 1..Len(downloads) :
    downloads[d].filename[3] = "pdf" =>
      LET doc == downloads[d].content
          quote == quoteSummary.quote[1]
      IN /\ doc.head = [c \in 1..Len(SummaryColumns) |-> SummaryColumns[c].head]
         /\ Len(doc.body) = Len(quote.items)
         /\ \A i \in 1..Len(quote.items) :
              /\ Len(doc.body[i]) = Len(SummaryColumns)
              /\ \A c \in 1..Len(SummaryColumns) :
                   doc.body[i][c] = CellText(quote.items[i], SummaryColumns[c].field)
         /\ doc.grandTotal = formatCurrency(quote.total)

\* A PDF of a quote of two different items was saved, with a total that
\* takes a thousands separator.
C19_Witness ==
  /\ downloads # <<>>
  /\ downloads[1].filename[3] = "pdf"
  /\ Len(downloads[1].content.body) = 2
  /\ downloads[1].content.body[1] # downloads[1].content.body[2]
  /\ quoteSummary.quote[1].total >= 1000
  /\ quoteSummary.quote[1].items[1].quantity # quoteSummary.quote[1].items[1].duration

----------------------------------------------------------------------------
(* Properties of the upload (checked under SpecUpload) *)

IsNumeral(chars) == chars # <<>> /\ \A k \in 1..Len(chars) : IsDigit(chars[k])

\* A required column is missing from the first row, or a data row that has a
\* reference and both costs filled in has a cost that is not a number.
Malformed(file) ==
  LET fields == {LowerTrim(file.headers[c]) : c \in 1..Len(file.headers)}
      costColumns == {c \in 1..Len(file.headers) :
                        LowerTrim(file.headers[c]) \in
                          {"opsbriskcost", "brisk cost", "standardcost", "cost"}}
  IN \/ fields \cap {"standardcost", "standard cost", "cost"} = {}
     \/ \E i \in 1..Len(file.rows) :
          /\ \A c \in 1..Len(file.rows[i]) : trim(file.rows[i][c]) # <<>>
          /\ \E c \in costColumns : ~IsNumeral(trim(file.rows[i][c]))

\* C15: when the file picked is malformed, the handler shows an error toast,
\* produces no preview and keeps no parsed item; and the rate card store is
\* written only with the items of a file that is not malformed.
C15_MalformedAborted ==
  [][/\ (/\ call'.op = "handleFileChange"
         /\ toasts' # toasts
         /\ call'.args[1].extension \in {"csv", "xlsx"}
         /\ Malformed(call'.args[1]))
        => /\ \E k \in (Len(toasts) + 1)..Len(toasts') : toasts'[k].kind = "error"
           /\ ~rateCardManager'.showPreview
           /\ rateCardManager'.parsedData = <<>>
     /\ (rateCardItems' # rateCardItems)
        => ~Malformed(rateCardManager.file[1])]_vars

----------------------------------------------------------------------------
(* Further properties of the actor (C21 under Spec, C29 under SpecCalc) *)

\* C21: every item of the quote history is stored under its own id, and that
\* id is the decimal text of the item's timestamp.
C21_KeyIsIdIsTimestamp ==
  \A k \in DOMAIN quoteHistory :
    /\ quoteHistory[k].id = k
    /\ k = IntToText(quoteHistory[k].timestamp)

\* Two items are on file, one with a one-digit and one with a two-digit id.
C21_Witness ==
  /\ Cardinality(DOMAIN quoteHistory) = 2
  /\ \E k \in DOMAIN quoteHistory : Len(k) = 1
  /\ \E k \in DOMAIN quoteHistory : Len(k) = 2

\* C29: on the same rate card and selection list generateFullQuote returns
\* the items and the total generateQuote returns, with the header it was
\* given; of the stores it writes the quote history and nothing else.
C29_SameAsGenerateQuote ==
  [][(call'.op = "generateFullQuote" /\ (call' # call \/ quoteHistory' # quoteHistory))
     => LET quote == generateQuoteLoop(rateCardItems, call'.args[2],
                                       [items |-> <<>>, total |-> 0])
        IN /\ call'.result.items = quote.items
           /\ call'.result.total = quote.total
           /\ call'.result.header = call'.args[1]
           /\ IntToText(now) \in DOMAIN quoteHistory'
           /\ UNCHANGED <<rateCardItems, accountManagers, uploadedFiles>>]_vars

\* generateFullQuote has priced a line whose ops cost differs from its
\* standard cost, from a list that also names an unknown id.
C29_Witness ==
  /\ call.op = "generateFullQuote"
  /\ quoteHistory # empty
  /\ UnknownIn(call.args[2]) # {}
  /\ \E i \in 1..Len(call.result.items) :
       /\ call.result.items[i].total # 0
       /\ call.result.items[i].opsBriskCost # call.result.items[i].standardCost

----------------------------------------------------------------------------
(* Who may read a profile (checked under SpecProfiles) *)

\* C22: a caller who is not an admin views only their own profile: when
\* getUserProfile is asked by such a caller for a profile that is on file
\* under another principal, it traps and returns nothing.
C22_OwnProfileOnly ==
  [][(/\ call' # call
      /\ call'.op = "getUserProfile"
      /\ ~isAdmin(accessControlState, call'.caller)
      /\ call'.args[1] \in DOMAIN userProfiles
      /\ call'.args[1] # PrincipalToText(call'.caller))
     => /\ call'.trap # ""
        /\ call'.result = <<>>]_vars

----------------------------------------------------------------------------
(* Preview and confirmation of an upload (checked under SpecUpload) *)

\* C28: the parsed upload is only previewed until the user confirms.  Picking
\* a file and Cancel send no request and leave the store alone, and Cancel
\* clears file, parsedData and the preview; Confirm sends the previewed
\* parsedData; a failed request leaves the preview as it was; a successful
\* one clears it and leaves in the rate card exactly the items shown, as many
\* as were shown.
C28_PreviewUntilConfirmed ==
  [][/\ call'.op \in {"handleFileChange", "handleCancelPreview"}
          => /\ rateCardItems' = rateCardItems
             /\ ~rateCardManager'.isUpdating
     /\ call'.op = "handleCancelPreview" => rateCardManager' = NoUpload
     /\ call'.op = "handleConfirmUpdate"
          => /\ rateCardManager'.isUpdating
             /\ rateCardManager'.parsedData = rateCardManager.parsedData
             /\ rateCardManager'.showPreview
             /\ rateCardItems' = rateCardItems
     /\ call'.op = "updateRateCard"
          => /\ call'.args[1] = rateCardManager.parsedData
             /\ IF call'.result = <<>>
                THEN /\ rateCardManager' = NoUpload
                     /\ Range(vals(rateCardItems')) = Range(rateCardManager.parsedData)
                     /\ Cardinality(DOMAIN rateCardItems') = Len(rateCardManager.parsedData)
                ELSE /\ rateCardItems' = rateCardItems
                     /\ rateCardManager'.showPreview
                     /\ rateCardManager'.parsedData = rateCardManager.parsedData
                     /\ rateCardManager'.file = rateCardManager.file]_vars

\* Two previewed items were written at the second attempt, after a first
\* request had failed.
C28_Witness ==
  /\ call.op = "updateRateCard"
  /\ call.result = <<>>
  /\ Cardinality(DOMAIN rateCardItems) = 2
  /\ Len(toasts) = 3
  /\ toasts[2].kind = "error"
  /\ rateCardManager = NoUpload

----------------------------------------------------------------------------
(* QuoteGenerator while the selection is built and edited with one typed    *)
(* text; another session deletes a rate card item meanwhile                *)

InitSelection ==
  /\ InitRest
  /\ rateCardItems = SummaryCard
  /\ quoteHistory = empty
  /\ accountManagers = empty
  /\ uploadedFiles = empty
  /\ now = TimeOrigin
  /\ request \in [text : NumberTexts]
  /\ call = NoCall

NextSelection ==
  \/ useGetRateCard
  \/ \E id \in Ids : setFilterDescription(id)
  \/ handleAddItem
  \/ \E index \in 1..MaxSel : handleRemoveItem(index)
  \/ \E index \in 1..MaxSel : handleQuantityChange(index, request.text)
  \/ \E index \in 1..MaxSel : handleDurationChange(index, request.text)
  \/ handleReset
  \/ deleteRateCardItem(<<"A">>)

SpecSelection == InitSelection /\ [][NextSelection]_vars

----------------------------------------------------------------------------
(* QuoteGenerator while the selection is edited, with 2 typed into the      *)
(* number inputs, and analysed; the rate card stays as it is               *)

InitAnalyze ==
  /\ InitRest
  /\ rateCardItems = SummaryCard
  /\ quoteHistory = empty
  /\ accountManagers = empty
  /\ uploadedFiles = empty
  /\ now = TimeOrigin
  /\ request = [text |-> <<"2">>]
  /\ call = NoCall

NextAnalyze ==
  \/ useGetRateCard
  \/ \E id \in Ids : setFilterDescription(id)
  \/ handleAddItem
  \/ \E index \in 1..MaxSel : handleRemoveItem(index)
  \/ \E index \in 1..MaxSel : handleQuantityChange(index, request.text)
  \/ \E index \in 1..MaxSel : handleDurationChange(index, request.text)
  \/ handleReset
  \/ handleAnalyzeQuote
  \/ generateAnalysisOnSuccess
  \/ generateAnalysisOnError

SpecAnalyze == InitAnalyze /\ [][NextAnalyze]_vars

----------------------------------------------------------------------------

(* AnalysisTab on a quote loaded from the history, its costs edited with   *)
(* one typed text and updated                                              *)

\* The quotes of the history: one item, and two items.
LoadedQuotes ==
  {LET quote == generateFullQuoteLoop(SummaryCard, selectedItems,
                                      [items |-> <<>>, total |-> 0])
   IN [header |-> TrimmedHeader([clientName |-> <<"A">>, projectDuration |-> <<"A">>,
                                 accountManager |-> <<"A">>, projectName |-> <<"A">>]),
       items |-> quote.items, total |-> quote.total] :
     selectedItems \in {<<<<<<"A">>, 1, 1>>>>, <<<<<<"A">>, 1, 1>>, <<<<"B">>, 2, 1>>>>}}

InitAnalysisTab ==
  /\ rateCardItems = SummaryCard
  /\ quoteHistory = empty
  /\ accountManagers = empty
  /\ uploadedFiles = empty
  /\ now = TimeOrigin
  /\ request \in [text : CostTexts]
  /\ call = NoCall
  /\ userProfiles = empty
  /\ accessControlState = initState
  /\ running = NoRunning
  /\ window = LoadedWindow
  /\ rateCardManager = NoUpload
  /\ quoteSummary = NoQuote
  /\ toasts = <<>>
  /\ downloads = <<>>
  /\ quoteGenerator = NoQuoteGenerator
  /\ \E quote \in LoadedQuotes :
       /\ mainApp = handleLoadQuote(NoMainApp, quote)
       /\ analysisTab = [NoAnalysisTab EXCEPT !.editableItems = EditableItems(quote.items)]

NextAnalysisTab ==
  \/ \E index \in 1..MaxSel : handleStandardCostChange(index, request.text)
  \/ handleUpdateCosts
  \/ \E k \in 1..MaxSel : updateStandardCostOnSuccess(k)
  \/ \E k \in 1..MaxSel : updateStandardCostOnError(k)
  \/ \E k \in 1..MaxSel, ok \in BOOLEAN : unobservedResponse(k, ok)

SpecAnalysisTab == InitAnalysisTab /\ [][NextAnalysisTab]_vars

----------------------------------------------------------------------------

(* QuoteGenerator under MainApp while a quote is prepared with one typed   *)
(* header text and generated                                               *)

\* The one account manager of the list; the name is stored as it was given.
PaddedManager == [id |-> <<"m", "1">>, name |-> <<" ", "A", " ">>, email |-> <<>>]

InitGenerate ==
  /\ rateCardItems = SummaryCard
  /\ quoteHistory = empty
  /\ accountManagers = PutAll(empty, <<PaddedManager>>)
  /\ uploadedFiles = empty
  /\ now = TimeOrigin
  /\ request \in [text : HeaderTexts]
  /\ call = NoCall
  /\ userProfiles = empty
  /\ accessControlState = initState
  /\ running = NoRunning
  /\ window = LoadedWindow
  /\ rateCardManager = NoUpload
  /\ quoteSummary = NoQuote
  /\ toasts = <<>>
  /\ downloads = <<>>
  /\ quoteGenerator = NoQuoteGenerator
  /\ analysisTab = NoAnalysisTab
  /\ mainApp \in {[NoMainApp EXCEPT !.forceMount = forced] : forced \in BOOLEAN}

NextGenerate ==
  \/ useGetRateCard
  \/ \E id \in Ids : setFilterDescription(id)
  \/ handleAddItem
  \/ setClientName(request.text)
  \/ setProjectName(request.text)
  \/ setProjectDuration(request.text)
  \/ \E id \in ManagerIds : setAccountManager(id)
  \/ handleGenerateQuote
  \/ generateFullQuoteOnSuccess
  \/ generateFullQuoteOnError
  \/ handleNewQuote
  \/ \E tab \in {"quote", "analysis"} : setActiveTab(tab)
  \/ \E k \in 1..MaxInFlight, ok \in BOOLEAN : unobservedResponse(k, ok)

SpecGenerate == InitGenerate /\ [][NextGenerate]_vars

----------------------------------------------------------------------------

(* MainApp with its tabs, from a filled form of QuoteGenerator: a quote is  *)
(* generated, loaded from the history, updated from the analysis tab,      *)
(* discarded                                                               *)

\* QuoteGenerator with item A added and the four header fields filled in.
FilledForm ==
  [NoQuoteGenerator EXCEPT
     !.rateCard = vals(SummaryCard),
     !.selectedItems = <<[id |-> <<"A">>, quantity |-> 1, duration |-> 1]>>,
     !.clientName = <<"A">>, !.projectDuration = <<"A">>,
     !.accountManager = PaddedManager.name, !.projectName = <<"A">>]

InitMainApp ==
  /\ rateCardItems = SummaryCard
  /\ quoteHistory = empty
  /\ accountManagers = PutAll(empty, <<PaddedManager>>)
  /\ uploadedFiles = empty
  /\ now = TimeOrigin
  /\ request = NoRequest
  /\ call = NoCall
  /\ userProfiles = empty
  /\ accessControlState = initState
  /\ running = NoRunning
  /\ window = LoadedWindow
  /\ rateCardManager = NoUpload
  /\ quoteSummary = NoQuote
  /\ toasts = <<toast("success", "Item added to quote")>>
  /\ downloads = <<>>
  /\ quoteGenerator = FilledForm
  /\ analysisTab = NoAnalysisTab
  /\ mainApp \in {[NoMainApp EXCEPT !.forceMount = forced] : forced \in BOOLEAN}

NextMainApp ==
  \/ \E tab \in TabValues : setActiveTab(tab)
  \/ handleGenerateQuote
  \/ generateFullQuoteOnSuccess
  \/ generateFullQuoteOnError
  \/ handleNewQuote
  \/ \E t \in TimeOrigin..MaxTime : handleViewQuote(IntToText(t))
  \/ handleStandardCostChange(1, <<"9", "0">>)
  \/ handleUpdateCosts
  \/ updateStandardCostOnSuccess(1)
  \/ updateStandardCostOnError(1)
  \/ \E k \in 1..MaxInFlight, ok \in BOOLEAN : unobservedResponse(k, ok)

SpecMainApp == InitMainApp /\ [][NextMainApp]_vars

----------------------------------------------------------------------------

(* C30 *)

\* C30: after any sequence of add, remove, quantity-edit, duration-edit and
\* reset actions, whatever text is typed, every entry of selectedItems has
\* quantity >= 1 and duration >= 1 and no item id occurs twice.
C30_SelectionValid ==
  LET items == quoteGenerator.selectedItems IN
  /\ \A i \in 1..Len(items) : items[i].quantity >= 1 /\ items[i].duration >= 1
  /\ \A i, j \in 1..Len(items) : items[i].id = items[j].id => i = j

\* A negative number was typed into the quantity of the second of two items,
\* and the description of a selected item was chosen and added again.
C30_Witness ==
  /\ call.op = "handleQuantityChange"
  /\ call.args = <<2, <<"-", "3">>>>
  /\ Len(quoteGenerator.selectedItems) = 2
  /\ \E i \in 1..Len(toasts) : toasts[i].message = "This item is already added to the quote"

----------------------------------------------------------------------------
(* C27 *)

\* The selected items other than the one shown in row index of the preview.
OtherThanRow(index) ==
  SelectSeq(quoteGenerator.selectedItems,
            LAMBDA item : item.id # liveQuoteData.items[index].id)

\* C27: editing the quantity or the duration of row i of the preview table
\* leaves every selected item but the one displayed in row i as it was, and
\* removing row i removes the selected item displayed in row i.
C27_RowIsSelectedItem ==
  [][/\ call'.op \in {"handleQuantityChange", "handleDurationChange"}
          => /\ Len(quoteGenerator'.selectedItems) = Len(quoteGenerator.selectedItems)
             /\ \A k \in 1..Len(quoteGenerator.selectedItems) :
                  quoteGenerator.selectedItems[k].id
                      # liveQuoteData.items[call'.args[1]].id
                    => quoteGenerator'.selectedItems[k] = quoteGenerator.selectedItems[k]
     /\ call'.op = "handleRemoveItem"
          => quoteGenerator'.selectedItems = OtherThanRow(call'.args[1])]_vars

----------------------------------------------------------------------------
(* C23 *)

\* C23: whenever analysisData is non-null it is the analysis of the current
\* selectedItems, whatever the order of the edits and of the responses.
C23_AnalysisIsCurrent ==
  quoteGenerator.analysisData # <<>>
    => quoteGenerator.analysisData[1]
         = generateAnalysisLoop(rateCardItems,
             quoteItems(validItems(quoteGenerator.selectedItems)),
             [items |-> <<>>, totalMargin |-> 0, totalProfit |-> 0])

----------------------------------------------------------------------------
(* C25 *)

\* C25: once every updateStandardCost request that handleUpdateCosts has
\* issued has succeeded, in whatever order, onQuoteUpdated has been called
\* exactly once.
C25_UpdatedOnceAllSucceeded ==
  (/\ analysisTab.requests # <<>>
   /\ \A k \in 1..Len(analysisTab.requests) : analysisTab.requests[k].status = "success")
    => analysisTab.updated = 1

----------------------------------------------------------------------------
(* C24 *)

\* The header fields of a stored quote are neither blank nor padded.
HeaderTrimmed(header) ==
  \A f \in DOMAIN header : header[f] # <<>> /\ trim(header[f]) = header[f]

\* handleGenerateQuote has what it needs: a valid selected item and four
\* header fields that are not blank.
CanGenerate ==
  /\ validItems(quoteGenerator.selectedItems) # <<>>
  /\ trim(quoteGenerator.clientName) # <<>>
  /\ trim(quoteGenerator.projectDuration) # <<>>
  /\ trim(quoteGenerator.accountManager) # <<>>
  /\ trim(quoteGenerator.projectName) # <<>>

\* C24: handleGenerateQuote sends a generateFullQuote request only with a
\* valid selected item and four header fields that are non-empty after
\* trimming; otherwise it shows an error and sends nothing; either way it
\* leaves the history and the generated quote alone. Every history item has
\* four non-blank, trimmed header fields.
C24_GenerateGuarded ==
  /\ [](\A id \in DOMAIN quoteHistory : HeaderTrimmed(quoteHistory[id].header))
  /\ [][call'.op = "handleGenerateQuote"
          => /\ quoteHistory' = quoteHistory
             /\ quoteGenerator'.generatedQuote = quoteGenerator.generatedQuote
             /\ mainApp' = mainApp
             /\ IF CanGenerate
                THEN /\ quoteGenerator'.generating # <<>>
                     /\ HeaderTrimmed(quoteGenerator'.generating[1].header)
                     /\ toasts' = toasts
                ELSE /\ quoteGenerator' = quoteGenerator
                     /\ Len(toasts') = Len(toasts) + 1
                     /\ toasts'[Len(toasts')].kind = "error"]_vars

\* A quote was refused for its header, then generated and stored once the
\* padded fields were filled in.
C24_Witness ==
  /\ quoteHistory # empty
  /\ request.text = <<" ", "A", " ">>
  /\ \E i \in 1..Len(toasts) : toasts[i].message = "Please fill in all header fields"

----------------------------------------------------------------------------
(* C26 *)

\* C26: whenever the active tab is 'analysis' there is a current quote, and
\* the Analysis trigger can be used exactly when there is a current quote
\* (and the tab is not already the active one).
C26_AnalysisHasQuote ==
  /\ mainApp.activeTab = "analysis" => mainApp.currentQuote # <<>>
  /\ (ENABLED setActiveTab("analysis"))
       <=> (mainApp.currentQuote # <<>> /\ mainApp.activeTab # "analysis")

\* The analysis tab is active on a quote that was just updated from it,
\* after a quote had been generated and stored.
C26_Witness ==
  /\ mainApp.activeTab = "analysis"
  /\ call.op = "updateStandardCost"
  /\ analysisTab.updated = 1
  /\ quoteHistory # empty

====
